---- MODULE Spec2Model ----
\* A model of libfuzzer/FuzzerDriver.cpp: the argument parser (ParseFlags,
\* ParseOneFlag, FlagValue, MyStol), the worker pool (RunInMultipleProcesses,
\* WorkerThread, PulseThread), the mode dispatcher (FuzzerDriver) and the
\* crash cleanser (CleanseCrashInput).
EXTENDS Integers, Sequences, FiniteSets, Bags, TLC

\* ------------------------------------------------------------------ bounds
MaxWorkers == 2
MaxJobs == 2
MaxFlagArgs == 3
MaxInputLen == 2
MaxArgs == 3

\* ------------------------------------------------------------------ state
VARIABLES
  \* --- command line and flags (ParseFlags)
  Args,           \* const std::vector<std::string> Args, Args[0] the program
  CustomMutator,  \* whether EF->LLVMFuzzerCustomMutator is set
  Flags,          \* the struct Flags, one field per registered flag
  Inputs,         \* static std::vector<std::string> *Inputs
  PrintedWarning, \* static bool PrintedWarning of ParseOneFlag
  argA,           \* the loop variable A of ParseFlags
  fpc,            \* position of ParseFlags
  \* --- worker pool (RunInMultipleProcesses)
  NumWorkers,   \* unsigned NumWorkers
  NumJobs,      \* unsigned NumJobs
  verbosity,    \* Flags.verbosity as read by WorkerThread
  Counter,      \* std::atomic<unsigned> Counter
  HasErrors,    \* std::atomic<bool> HasErrors
  Mu,           \* static std::mutex Mu: <<>> when free, else its holder
  mpc,          \* position of the thread running RunInMultipleProcesses
  spawned,      \* the loop variable i of the spawning loop
  ret,          \* value returned by RunInMultipleProcesses (-1: none yet)
  wpc,          \* position of each WorkerThread
  wC,           \* each worker's local C
  wExitCode,    \* each worker's local ExitCode
  ppc,          \* position of PulseThread
  stderr,       \* the last two footer, log or pulse lines on standard error
  executed,     \* bag of <<job id, exit code>>: the subprocesses that were run
  \* --- mode dispatcher (FuzzerDriver)
  dpc,             \* position of FuzzerDriver
  DictionaryEmpty, \* whether std::vector<Unit> Dictionary is empty
  atExit,          \* whether std::atexit(Fuzzer::StaticExitCallback) was called
  modesRun,        \* the terminal modes entered, in order
  exitKind,        \* how the call ended: "return", "exit" or "abort"
  exitCode,        \* the returned value or the process status
  endedBy,         \* the statement that ended the call
  \* --- crash cleanser (CleanseCrashInput)
  cpc,          \* position of CleanseCrashInput
  InputData,    \* the bytes of the file at InputFilePath
  U,            \* the buffer U
  Size,         \* size_t Size
  NumAttempts,  \* the loop variable NumAttempts
  Idx,          \* the loop variable Idx
  Cand,         \* position of NewByte in ReplacementBytes
  OriginalByte, \* uint8_t OriginalByte
  Changed,      \* bool Changed
  TmpFile,      \* the file at TmpFilePath: <<>> when absent, else <<bytes>>
  OutputFile,   \* the file at OutputFilePath: <<>> when absent, else <<bytes>>
  lastRun,      \* what the last subprocess was given and returned
  \* --- crash minimizer (MinimizeCrashInput)
  BaseCmd,         \* the calls made on Command BaseCmd: constructor argument, removals, additions
  npc,             \* position of MinimizeCrashInput
  CurrentFilePath, \* std::string CurrentFilePath
  MinU,            \* Unit U of the current iteration
  DedupToken1,     \* DedupToken1 of the current iteration
  MinFiles,        \* the files at the input path, the exact artifact path and
                   \* the minimized-from-<hash> paths
  minLog,          \* the subprocesses that were run, in order
  \* --- individual runs (FuzzerDriver, RunOneTest)
  rpc,           \* position inside the run-individual branch
  Runs,          \* int Runs
  PathIdx,       \* position of Path in *Inputs
  Iter,          \* int Iter
  callbacks,     \* the paths whose unit F->ExecuteCallback was given, in order
  CorpusUnits,   \* number of units in the InputCorpus
  SaveArtifacts, \* Options.SaveArtifacts
  \* --- dictionary analysis (AnalyzeDictionary)
  reported,        \* indices of the dictionary units printed as useless
  apc,             \* position of AnalyzeDictionary
  Dict,            \* const std::vector<Unit> &Dict
  Corpus,          \* UnitVector &Corpus
  Scores,          \* std::vector<int> Scores
  Usages,          \* std::vector<int> Usages
  cIdx,            \* position of C in Corpus
  dIdx,            \* the loop variable i
  InitialFeatures, \* std::vector<size_t> InitialFeatures
  executions       \* the units F->ExecuteCallback was given: <<data, i>>, i = 0
                   \* for an unmodified unit, else the dictionary entry masked

argVars == <<Args, CustomMutator, Flags, Inputs, PrintedWarning, argA, fpc>>

workerVars == <<NumWorkers, NumJobs, verbosity, Counter, HasErrors, Mu, mpc,
                spawned, ret, wpc, wC, wExitCode, ppc, stderr, executed>>

driverVars == <<dpc, DictionaryEmpty, atExit, modesRun, exitKind, exitCode, endedBy>>

cleanseVars == <<cpc, InputData, U, Size, NumAttempts, Idx, Cand, OriginalByte,
                 Changed, TmpFile, OutputFile, lastRun>>

minimizeVars == <<npc, CurrentFilePath, MinU, DedupToken1, MinFiles, minLog, BaseCmd>>

runVars == <<rpc, Runs, PathIdx, Iter, callbacks, CorpusUnits, SaveArtifacts>>

dictVars == <<apc, Dict, Corpus, Scores, Usages, cIdx, dIdx, InitialFeatures, executions, reported>>

vars == <<argVars, workerVars, driverVars, cleanseVars, minimizeVars, runVars, dictVars>>

\* The parts of the program a specification does not run stay as the loader
\* left them.
IdleArgs ==
  /\ Args = <<>>
  /\ CustomMutator = FALSE
  /\ Flags = <<>>
  /\ Inputs = <<>>
  /\ PrintedWarning = FALSE
  /\ argA = 0
  /\ fpc = "idle"

IdleWorkers ==
  /\ NumWorkers = 0
  /\ NumJobs = 0
  /\ verbosity = 0
  /\ Counter = 0
  /\ HasErrors = FALSE
  /\ Mu = <<>>
  /\ mpc = "idle"
  /\ spawned = 0
  /\ ret = -1
  /\ wpc = <<>>
  /\ wC = <<>>
  /\ wExitCode = <<>>
  /\ ppc = "idle"
  /\ stderr = <<>>
  /\ executed = <<>>

IdleDriver ==
  /\ dpc = "idle"
  /\ DictionaryEmpty = TRUE
  /\ atExit = FALSE
  /\ modesRun = <<>>
  /\ exitKind = "none"
  /\ exitCode = 0
  /\ endedBy = "none"

IdleCleanse ==
  /\ cpc = "idle"
  /\ InputData = <<>>
  /\ U = <<>>
  /\ Size = 0
  /\ NumAttempts = 0
  /\ Idx = 0
  /\ Cand = 0
  /\ OriginalByte = 0
  /\ Changed = FALSE
  /\ TmpFile = <<>>
  /\ OutputFile = <<>>
  /\ lastRun = [Data |-> <<>>, Code |-> -1]

NoCommand == [Ctor |-> <<>>, RemovedFlags |-> <<>>, RemovedArguments |-> <<>>, AddedFlags |-> <<>>]
IdleMinimize ==
  /\ npc = "idle"
  /\ CurrentFilePath = [Kind |-> "none", Of |-> <<>>]
  /\ MinU = <<>>
  /\ DedupToken1 = <<>>
  /\ MinFiles = <<>>
  /\ minLog = <<>>
  /\ BaseCmd = NoCommand

IdleRun ==
  /\ rpc = "idle"
  /\ Runs = 0
  /\ PathIdx = 0
  /\ Iter = 0
  /\ callbacks = <<>>
  /\ CorpusUnits = 0
  /\ SaveArtifacts = TRUE

IdleDict ==
  /\ apc = "idle"
  /\ Dict = <<>>
  /\ Corpus = <<>>
  /\ Scores = <<>>
  /\ Usages = <<>>
  /\ cIdx = 0
  /\ dIdx = 0
  /\ InitialFeatures = <<>>
  /\ executions = <<>>
  /\ reported = <<>>

\* the three together
IdleModes == IdleMinimize /\ IdleRun /\ IdleDict
modeVars == <<minimizeVars, runVars, dictVars>>

\* ------------------------------------------------- flag registry and parser
\* C strings are sequences of one-character strings; NUL is the terminator
\* read at index strlen. A const char * that may be null is <<>> (nullptr) or
\* <<s>> (a pointer to the string s).
NUL == "NUL"
nullptr == <<>>
Ptr(s) == <<s>>
CharAt(s, i) == IF i < Len(s) THEN s[i + 1] ELSE NUL
Suffix(s, i) == SubSeq(s, i + 1, Len(s))
IsPrefixOf(p, s) == Len(p) <= Len(s) /\ SubSeq(s, 1, Len(p)) = p

\* static const FlagDescription FlagDescriptions[]: the rows of FuzzerFlags.def
\* that FuzzerDriver.cpp reads, with the kind each macro gives them.
FlagDescriptions == <<
  [Name |-> <<"v", "e", "r", "b", "o", "s", "i", "t", "y">>, Field |-> "verbosity", Kind |-> "int", Default |-> 1],
  [Name |-> <<"r", "u", "n", "s">>, Field |-> "runs", Kind |-> "int", Default |-> -1],
  [Name |-> <<"m", "a", "x", "_", "t", "o", "t", "a", "l", "_", "t", "i", "m", "e">>, Field |-> "max_total_time", Kind |-> "int", Default |-> 0],
  [Name |-> <<"l", "e", "n", "_", "c", "o", "n", "t", "r", "o", "l">>, Field |-> "len_control", Kind |-> "int", Default |-> 100],
  [Name |-> <<"h", "e", "l", "p">>, Field |-> "help", Kind |-> "int", Default |-> 0],
  [Name |-> <<"m", "i", "n", "i", "m", "i", "z", "e", "_", "c", "r", "a", "s", "h">>, Field |-> "minimize_crash", Kind |-> "int", Default |-> 0],
  [Name |-> <<"m", "i", "n", "i", "m", "i", "z", "e", "_", "c", "r", "a", "s", "h", "_", "i", "n", "t", "e", "r", "n", "a", "l", "_", "s", "t", "e", "p">>, Field |-> "minimize_crash_internal_step", Kind |-> "int", Default |-> 0],
  [Name |-> <<"c", "l", "e", "a", "n", "s", "e", "_", "c", "r", "a", "s", "h">>, Field |-> "cleanse_crash", Kind |-> "int", Default |-> 0],
  [Name |-> <<"f", "o", "r", "k">>, Field |-> "fork", Kind |-> "int", Default |-> 0],
  [Name |-> <<"m", "e", "r", "g", "e">>, Field |-> "merge", Kind |-> "int", Default |-> 0],
  [Name |-> <<"s", "e", "t", "_", "c", "o", "v", "e", "r", "_", "m", "e", "r", "g", "e">>, Field |-> "set_cover_merge", Kind |-> "int", Default |-> 0],
  [Name |-> <<"a", "n", "a", "l", "y", "z", "e", "_", "d", "i", "c", "t">>, Field |-> "analyze_dict", Kind |-> "int", Default |-> 0],
  [Name |-> <<"c", "r", "e", "a", "t", "e", "_", "m", "i", "s", "s", "i", "n", "g", "_", "d", "i", "r", "s">>, Field |-> "create_missing_dirs", Kind |-> "int", Default |-> 0],
  [Name |-> <<"i", "g", "n", "o", "r", "e", "_", "r", "e", "m", "a", "i", "n", "i", "n", "g", "_", "a", "r", "g", "s">>, Field |-> "ignore_remaining_args", Kind |-> "int", Default |-> 0],
  [Name |-> <<"s", "e", "e", "d">>, Field |-> "seed", Kind |-> "uint", Default |-> 0],
  [Name |-> <<"j", "o", "b", "s">>, Field |-> "jobs", Kind |-> "uint", Default |-> 0],
  [Name |-> <<"w", "o", "r", "k", "e", "r", "s">>, Field |-> "workers", Kind |-> "uint", Default |-> 0],
  [Name |-> <<"d", "i", "c", "t">>, Field |-> "dict", Kind |-> "str", Default |-> 0],
  [Name |-> <<"a", "r", "t", "i", "f", "a", "c", "t", "_", "p", "r", "e", "f", "i", "x">>, Field |-> "artifact_prefix", Kind |-> "str", Default |-> 0],
  [Name |-> <<"e", "x", "a", "c", "t", "_", "a", "r", "t", "i", "f", "a", "c", "t", "_", "p", "a", "t", "h">>, Field |-> "exact_artifact_path", Kind |-> "str", Default |-> 0],
  [Name |-> <<"f", "e", "a", "t", "u", "r", "e", "s", "_", "d", "i", "r">>, Field |-> "features_dir", Kind |-> "str", Default |-> 0],
  [Name |-> <<"m", "e", "r", "g", "e", "_", "i", "n", "n", "e", "r">>, Field |-> "merge_inner", Kind |-> "str", Default |-> 0],
  [Name |-> <<"m", "e", "r", "g", "e", "_", "c", "o", "n", "t", "r", "o", "l", "_", "f", "i", "l", "e">>, Field |-> "merge_control_file", Kind |-> "str", Default |-> 0],
  [Name |-> <<"c", "o", "l", "l", "e", "c", "t", "_", "d", "a", "t", "a", "_", "f", "l", "o", "w">>, Field |-> "collect_data_flow", Kind |-> "str", Default |-> 0],
  [Name |-> <<"d", "a", "t", "a", "_", "f", "l", "o", "w", "_", "t", "r", "a", "c", "e">>, Field |-> "data_flow_trace", Kind |-> "str", Default |-> 0],
  [Name |-> <<"e", "x", "i", "t", "_", "o", "n", "_", "f", "i", "r", "s", "t">>, Field |-> "exit_on_first", Kind |-> "deprecated", Default |-> 0]
>>

kNumFlags == Len(FlagDescriptions)
\* the fields of struct Flags: a deprecated flag has no backing field
FlagFields ==
  {FlagDescriptions[F].Field :
     F \in {G \in 1..kNumFlags : FlagDescriptions[G].Kind # "deprecated"}}

\* static const char *FlagValue(const char *Param, const char *Name)
FlagValue(Param, Name) ==
  IF /\ CharAt(Param, 0) = "-"
     /\ IsPrefixOf(Name, Suffix(Param, 1))
     /\ CharAt(Param, Len(Name) + 1) = "="
  THEN Ptr(Suffix(Param, Len(Name) + 2))
  ELSE nullptr

Digits == <<"0", "1", "2", "3", "4", "5", "6", "7", "8", "9">>
IsDigit(Ch) == \E d \in 1..Len(Digits) : Digits[d] = Ch
DigitValue(Ch) == (CHOOSE d \in 1..Len(Digits) : Digits[d] = Ch) - 1

\* the loop of MyStol from index i on, with Res parsed so far; the early
\* return gives Res without the sign
RECURSIVE MyStolLoop(_, _, _, _)
MyStolLoop(Str, i, Res, Sign) ==
  IF CharAt(Str, i) = NUL THEN Res * Sign
  ELSE IF ~IsDigit(CharAt(Str, i)) THEN Res
  ELSE MyStolLoop(Str, i + 1, Res * 10 + DigitValue(CharAt(Str, i)), Sign)

\* static long MyStol(const char *Str)
MyStol(Str) ==
  IF CharAt(Str, 0) = "-" THEN MyStolLoop(Suffix(Str, 1), 0, 0, -1)
  ELSE MyStolLoop(Str, 0, 0, 1)

RECURSIVE DigitRun(_, _, _)
DigitRun(Str, i, Res) ==
  IF IsDigit(CharAt(Str, i))
  THEN DigitRun(Str, i + 1, Res * 10 + DigitValue(CharAt(Str, i)))
  ELSE Res

\* std::stoul(Str) followed by static_cast<unsigned int>: an optional sign,
\* then at least one digit, else std::invalid_argument is thrown. The wrapped
\* value 2^32 - m of a negative input is written -m.
StoUL(Str) ==
  LET signed == CharAt(Str, 0) \in {"-", "+"}
      body == IF signed THEN Suffix(Str, 1) ELSE Str
  IN IF ~IsDigit(CharAt(body, 0)) THEN [threw |-> TRUE, Val |-> 0]
     ELSE [threw |-> FALSE,
           Val |-> IF CharAt(Str, 0) = "-" THEN 0 - DigitRun(body, 0, 0)
                   ELSE DigitRun(body, 0, 0)]

\* the first row of FlagDescriptions whose name Param carries, 0 if none
MatchingFlag(Param) ==
  LET hits == {F \in 1..kNumFlags : FlagValue(Param, FlagDescriptions[F].Name) # nullptr}
  IN IF hits = {} THEN 0 ELSE CHOOSE F \in hits : \A G \in hits : F <= G

\* what one call of ParseOneFlag leaves: the returned bool, whether
\* std::stoul threw out of it, the struct Flags and the static PrintedWarning
Outcome(r, threw, flags, warned) ==
  [Ret |-> r, Threw |-> threw, Flags |-> flags, PrintedWarning |-> warned]

\* lines 165-186: row F of FlagDescriptions matched Param; the value is stored
\* through the pointer the row carries
StoreFlag(Param, st, F) ==
  LET D == FlagDescriptions[F]
      Str == FlagValue(Param, D.Name)[1]
  IN CASE D.Kind = "int" ->
            Outcome(TRUE, FALSE, [st.Flags EXCEPT ![D.Field] = MyStol(Str)], st.PrintedWarning)
       [] D.Kind = "uint" ->
            IF StoUL(Str).threw
            THEN Outcome(FALSE, TRUE, st.Flags, st.PrintedWarning)
            ELSE Outcome(TRUE, FALSE, [st.Flags EXCEPT ![D.Field] = StoUL(Str).Val],
                         st.PrintedWarning)
       [] D.Kind = "str" ->
            Outcome(TRUE, FALSE, [st.Flags EXCEPT ![D.Field] = Ptr(Str)], st.PrintedWarning)
       [] OTHER -> Outcome(TRUE, FALSE, st.Flags, st.PrintedWarning)

\* mutant: an unrecognized flag is not consumed
ParseOneFlagUnknownIsInput(Param, st) ==
  IF CharAt(Param, 0) # "-" THEN Outcome(FALSE, FALSE, st.Flags, st.PrintedWarning)
  ELSE IF CharAt(Param, 1) = "-" THEN Outcome(TRUE, FALSE, st.Flags, TRUE)
  ELSE IF MatchingFlag(Param) = 0
  THEN Outcome(FALSE, FALSE, st.Flags, st.PrintedWarning)
  ELSE StoreFlag(Param, st, MatchingFlag(Param))

\* mutant: a flag that starts with '--' is read as if it had one dash
ParseOneFlagDoubleDashParsed(Param, st) ==
  IF CharAt(Param, 0) # "-" THEN Outcome(FALSE, FALSE, st.Flags, st.PrintedWarning)
  ELSE IF CharAt(Param, 1) = "-"
  THEN IF MatchingFlag(Suffix(Param, 1)) = 0 THEN Outcome(TRUE, FALSE, st.Flags, TRUE)
       ELSE StoreFlag(Suffix(Param, 1), st, MatchingFlag(Suffix(Param, 1)))
  ELSE IF MatchingFlag(Param) = 0
  THEN Outcome(TRUE, FALSE, st.Flags, st.PrintedWarning)
  ELSE StoreFlag(Param, st, MatchingFlag(Param))

\* static bool ParseOneFlag(const char *Param), on the parser state
\* st = [Flags, PrintedWarning]
ParseOneFlag(Param, st) ==
  IF CharAt(Param, 0) # "-" THEN Outcome(FALSE, FALSE, st.Flags, st.PrintedWarning)
  ELSE IF CharAt(Param, 1) = "-" THEN Outcome(TRUE, FALSE, st.Flags, TRUE)
  ELSE IF MatchingFlag(Param) = 0
  THEN Outcome(TRUE, FALSE, st.Flags, st.PrintedWarning)
  ELSE StoreFlag(Param, st, MatchingFlag(Param))

\* struct Flags before ParseFlags ran: static storage, zero-initialized
ZeroFlags ==
  [f \in FlagFields |->
     LET D == FlagDescriptions[CHOOSE F \in 1..kNumFlags : FlagDescriptions[F].Field = f]
     IN IF D.Kind = "str" THEN nullptr ELSE 0]

\* mutant: the first loop of ParseFlags stores no default
DefaultFlagsNotStored(customMutator) ==
  [f \in FlagFields |->
     LET D == FlagDescriptions[CHOOSE F \in 1..kNumFlags : FlagDescriptions[F].Field = f]
     IN IF D.Kind = "str" THEN nullptr
        ELSE IF f = "len_control" /\ customMutator THEN 0
        ELSE 0]

\* ParseFlags, first loop: every backing field gets its declared default,
\* string flags nullptr; then len_control = 0 if LLVMFuzzerCustomMutator is set.
DefaultFlags(customMutator) ==
  [f \in FlagFields |->
     LET D == FlagDescriptions[CHOOSE F \in 1..kNumFlags : FlagDescriptions[F].Field = f]
     IN IF D.Kind = "str" THEN nullptr
        ELSE IF f = "len_control" /\ customMutator THEN 0
        ELSE D.Default]

\* ParseFlags, second loop from argument A on (Args[0] is the program name);
\* ps = [Flags, PrintedWarning, Inputs, Threw]
RECURSIVE ParseArgsFrom(_, _, _)
ParseArgsFrom(args, A, ps) ==
  IF A >= Len(args) THEN ps
  ELSE LET r == ParseOneFlag(args[A + 1], ps) IN
    IF r.Threw THEN [ps EXCEPT !.Threw = TRUE]
    ELSE IF r.Ret
    THEN IF r.Flags["ignore_remaining_args"] # 0
         THEN [ps EXCEPT !.Flags = r.Flags, !.PrintedWarning = r.PrintedWarning]
         ELSE ParseArgsFrom(args, A + 1,
                [ps EXCEPT !.Flags = r.Flags, !.PrintedWarning = r.PrintedWarning])
    ELSE ParseArgsFrom(args, A + 1, [ps EXCEPT !.Inputs = Append(ps.Inputs, args[A + 1])])

\* static void ParseFlags(const std::vector<std::string> &Args, const ExternalFunctions *EF)
ParseFlags(args, customMutator, warned) ==
  ParseArgsFrom(args, 1, [Flags |-> DefaultFlags(customMutator),
                          PrintedWarning |-> warned,
                          Inputs |-> <<>>, Threw |-> FALSE])

\* the sequences of at most n elements of S
RECURSIVE SeqsUpTo(_, _)
SeqsUpTo(S, n) ==
  IF n = 0 THEN {<<>>}
  ELSE {<<>>} \cup {<<x>> \o t : x \in S, t \in SeqsUpTo(S, n - 1)}

ProgName == <<"f", "u", "z", "z">>

\* --------------------------------------------------- ParseFlags, step by step
\* the tokens the parser is run on
ParseTokens == {
  <<"a">>,
  <<>>,
  <<"-">>,
  <<"-", "x">>,
  <<"-", "-", "h", "e", "l", "p", "=", "1">>,
  <<"-", "z", "z", "=", "1">>,
  <<"-", "h", "e", "l", "p", "=", "1">>,
  <<"-", "r", "u", "n", "s", "=", "-", "7">>,
  <<"-", "i", "g", "n", "o", "r", "e", "_", "r", "e", "m", "a", "i", "n", "i", "n", "g", "_", "a", "r", "g", "s", "=", "1">>,
  <<"-", "s", "e", "e", "d", "=", "x">>,
  <<"-", "d", "i", "c", "t", "=", "d">>,
  <<"-", "e", "x", "i", "t", "_", "o", "n", "_", "f", "i", "r", "s", "t", "=", "1">>,
  <<"-", "l", "e", "n", "_", "c", "o", "n", "t", "r", "o", "l", "=", "7">>
}

InitParse ==
  /\ Args \in {<<ProgName>> \o t : t \in SeqsUpTo(ParseTokens, MaxArgs)}
  /\ CustomMutator \in BOOLEAN
  /\ Flags = ZeroFlags
  /\ Inputs = <<>>
  /\ PrintedWarning = FALSE
  /\ argA = 0
  /\ fpc = "start"
  /\ IdleWorkers
  /\ IdleDriver
  /\ IdleCleanse
  /\ IdleModes

\* lines 198-215: the defaults, then Inputs = new std::vector<std::string>
ParseDefaults ==
  /\ fpc = "start"
  /\ Flags' = DefaultFlags(CustomMutator)
  /\ Inputs' = <<>>
  /\ argA' = 1
  /\ fpc' = "loop"
  /\ UNCHANGED <<Args, CustomMutator, PrintedWarning>>
  /\ UNCHANGED <<workerVars, driverVars, cleanseVars, modeVars>>

\* mutant: continue without the test of ignore_remaining_args
ParseArgNoBreak ==
  /\ fpc = "loop"
  /\ argA < Len(Args)
  /\ LET r == ParseOneFlag(Args[argA + 1], [Flags |-> Flags, PrintedWarning |-> PrintedWarning])
     IN IF r.Threw
        THEN fpc' = "threw" /\ UNCHANGED <<Flags, PrintedWarning, Inputs, argA>>
        ELSE IF r.Ret
        THEN /\ Flags' = r.Flags
             /\ PrintedWarning' = r.PrintedWarning
             /\ fpc' = "loop" /\ argA' = argA + 1
             /\ UNCHANGED Inputs
        ELSE /\ Inputs' = Append(Inputs, Args[argA + 1])
             /\ argA' = argA + 1
             /\ UNCHANGED <<Flags, PrintedWarning, fpc>>
  /\ UNCHANGED <<Args, CustomMutator>>
  /\ UNCHANGED <<workerVars, driverVars, cleanseVars, modeVars>>

\* mutant: ignore_remaining_args is tested when a positional argument is met
ParseArgBreaksAtPositional ==
  /\ fpc = "loop"
  /\ argA < Len(Args)
  /\ LET r == ParseOneFlag(Args[argA + 1], [Flags |-> Flags, PrintedWarning |-> PrintedWarning])
     IN IF r.Threw
        THEN fpc' = "threw" /\ UNCHANGED <<Flags, PrintedWarning, Inputs, argA>>
        ELSE IF r.Ret
        THEN /\ Flags' = r.Flags
             /\ PrintedWarning' = r.PrintedWarning
             /\ fpc' = "loop" /\ argA' = argA + 1
             /\ UNCHANGED Inputs
        ELSE IF Flags["ignore_remaining_args"] # 0
        THEN fpc' = "returned" /\ UNCHANGED <<Flags, PrintedWarning, Inputs, argA>>
        ELSE /\ Inputs' = Append(Inputs, Args[argA + 1])
             /\ argA' = argA + 1
             /\ UNCHANGED <<Flags, PrintedWarning, fpc>>
  /\ UNCHANGED <<Args, CustomMutator>>
  /\ UNCHANGED <<workerVars, driverVars, cleanseVars, modeVars>>

\* lines 216-223: one iteration of for (size_t A = 1; A < Args.size(); A++)
ParseArg ==
  /\ fpc = "loop"
  /\ argA < Len(Args)
  /\ LET r == ParseOneFlag(Args[argA + 1], [Flags |-> Flags, PrintedWarning |-> PrintedWarning])
     IN IF r.Threw
        THEN fpc' = "threw" /\ UNCHANGED <<Flags, PrintedWarning, Inputs, argA>>
        ELSE IF r.Ret
        THEN /\ Flags' = r.Flags
             /\ PrintedWarning' = r.PrintedWarning
             /\ IF r.Flags["ignore_remaining_args"] # 0
                THEN fpc' = "returned" /\ UNCHANGED argA
                ELSE fpc' = "loop" /\ argA' = argA + 1
             /\ UNCHANGED Inputs
        ELSE /\ Inputs' = Append(Inputs, Args[argA + 1])
             /\ argA' = argA + 1
             /\ UNCHANGED <<Flags, PrintedWarning, fpc>>
  /\ UNCHANGED <<Args, CustomMutator>>
  /\ UNCHANGED <<workerVars, driverVars, cleanseVars, modeVars>>

\* the loop condition fails: ParseFlags returns
ParseReturn ==
  /\ fpc = "loop"
  /\ argA >= Len(Args)
  /\ fpc' = "returned"
  /\ UNCHANGED <<Args, CustomMutator, Flags, Inputs, PrintedWarning, argA>>
  /\ UNCHANGED <<workerVars, driverVars, cleanseVars, modeVars>>

NextParse ==
  \/ ParseDefaults
  \/ ParseArg
  \/ ParseReturn

SpecParse == InitParse /\ [][NextParse]_vars
\* ------------------------------------------------------------ worker pool
Workers == 1..MaxWorkers
ExitCodes == {0, 1}
Free == <<>>
WorkerOwner(w) == <<"worker", w>>
PulseOwner == <<"pulse", 0>>
NoLine == <<"none", -1, 0>>
\* A footer, log or pulse line reaches standard error.
Printed(line) == <<stderr[2], line>>

InitWorkers ==
  /\ NumWorkers \in 1..MaxWorkers
  /\ NumJobs \in 1..MaxJobs
  /\ verbosity \in {0, 1}
  /\ Counter = 0
  /\ HasErrors = FALSE
  /\ Mu = Free
  /\ mpc = "spawn"
  /\ spawned = 0
  /\ ret = -1
  /\ wpc = [w \in Workers |-> "unborn"]
  /\ wC = [w \in Workers |-> 0]
  /\ wExitCode = [w \in Workers |-> 0]
  /\ ppc = "sleep"
  /\ stderr = <<NoLine, NoLine>>
  /\ executed = EmptyBag
  /\ IdleArgs
  /\ IdleDriver
  /\ IdleCleanse
  /\ IdleModes

\* for (i < NumWorkers) V[i] = std::thread(WorkerThread, ...)
SpawnWorker ==
  /\ mpc = "spawn"
  /\ spawned < NumWorkers
  /\ spawned' = spawned + 1
  /\ wpc' = [wpc EXCEPT ![spawned + 1] = "fetch"]
  /\ mpc' = IF spawned + 1 = NumWorkers THEN "join" ELSE "spawn"
  /\ UNCHANGED <<NumWorkers, NumJobs, verbosity, Counter, HasErrors, Mu, ret,
                 wC, wExitCode, ppc, stderr, executed>>
  /\ UNCHANGED <<argVars, driverVars, cleanseVars, modeVars>>

\* for (auto &T : V) T.join(); return HasErrors ? 1 : 0;
JoinAndReturn ==
  /\ mpc = "join"
  /\ \A w \in 1..NumWorkers : wpc[w] = "done"
  /\ mpc' = "returned"
  /\ ret' = IF HasErrors THEN 1 ELSE 0
  /\ UNCHANGED <<NumWorkers, NumJobs, verbosity, Counter, HasErrors, Mu,
                 spawned, wpc, wC, wExitCode, ppc, stderr, executed>>
  /\ UNCHANGED <<argVars, driverVars, cleanseVars, modeVars>>

\* mutant: pre-increment, unsigned C = ++(*Counter)
FetchPreIncrement(w) ==
  /\ wpc[w] = "fetch"
  /\ Counter' = Counter + 1
  /\ wC' = [wC EXCEPT ![w] = Counter + 1]
  /\ wpc' = [wpc EXCEPT ![w] =
               IF Counter + 1 >= NumJobs THEN "done"
               ELSE IF verbosity # 0 THEN "cmdline" ELSE "exec"]
  /\ UNCHANGED <<NumWorkers, NumJobs, verbosity, HasErrors, Mu, mpc, spawned,
                 ret, wExitCode, ppc, stderr, executed>>
  /\ UNCHANGED <<argVars, driverVars, cleanseVars, modeVars>>

\* unsigned C = (*Counter)++; if (C >= NumJobs) break;
\* Counter ends at NumJobs + NumWorkers, both positive ints: it never wraps.
Fetch(w) ==
  /\ wpc[w] = "fetch"
  /\ Counter' = Counter + 1
  /\ wC' = [wC EXCEPT ![w] = Counter]
  /\ wpc' = [wpc EXCEPT ![w] =
               IF Counter >= NumJobs THEN "done"
               ELSE IF verbosity # 0 THEN "cmdline" ELSE "exec"]
  /\ UNCHANGED <<NumWorkers, NumJobs, verbosity, HasErrors, Mu, mpc, spawned,
                 ret, wExitCode, ppc, stderr, executed>>
  /\ UNCHANGED <<argVars, driverVars, cleanseVars, modeVars>>

\* if (Flags.verbosity) Printf("%s\n", CommandLine.c_str());
\* The echo is made without Mu and is not one of the lines stderr keeps.
PrintCommandLine(w) ==
  /\ wpc[w] = "cmdline"
  /\ wpc' = [wpc EXCEPT ![w] = "exec"]
  /\ UNCHANGED <<NumWorkers, NumJobs, verbosity, Counter, HasErrors, Mu, mpc,
                 spawned, ret, wC, wExitCode, ppc, stderr, executed>>
  /\ UNCHANGED <<argVars, driverVars, cleanseVars, modeVars>>

\* mutant: *HasErrors = (ExitCode != 0)
ExecuteOverwriteFlag(w) ==
  /\ wpc[w] = "exec"
  /\ \E code \in ExitCodes :
       /\ wExitCode' = [wExitCode EXCEPT ![w] = code]
       /\ HasErrors' = (code # 0)
       /\ executed' = executed (+) SetToBag({<<wC[w], code>>})
  /\ wpc' = [wpc EXCEPT ![w] = "lock"]
  /\ UNCHANGED <<NumWorkers, NumJobs, verbosity, Counter, Mu, mpc, spawned,
                 ret, wC, ppc, stderr>>
  /\ UNCHANGED <<argVars, driverVars, cleanseVars, modeVars>>

\* mutant: a failing job makes its worker leave the loop
ExecuteBreakOnError(w) ==
  /\ wpc[w] = "exec"
  /\ \E code \in ExitCodes :
       /\ wExitCode' = [wExitCode EXCEPT ![w] = code]
       /\ HasErrors' = IF code # 0 THEN TRUE ELSE HasErrors
       /\ executed' = executed (+) SetToBag({<<wC[w], code>>})
       /\ wpc' = [wpc EXCEPT ![w] = IF code # 0 THEN "done" ELSE "lock"]
  /\ UNCHANGED <<NumWorkers, NumJobs, verbosity, Counter, Mu, mpc, spawned,
                 ret, wC, ppc, stderr>>
  /\ UNCHANGED <<argVars, driverVars, cleanseVars, modeVars>>

\* int ExitCode = ExecuteCommand(Cmd); if (ExitCode != 0) *HasErrors = true;
\* The subprocess writes to fuzz-C.log only; its exit code is the environment's.
Execute(w) ==
  /\ wpc[w] = "exec"
  /\ \E code \in ExitCodes :
       /\ wExitCode' = [wExitCode EXCEPT ![w] = code]
       /\ HasErrors' = IF code # 0 THEN TRUE ELSE HasErrors
       /\ executed' = executed (+) SetToBag({<<wC[w], code>>})
  /\ wpc' = [wpc EXCEPT ![w] = "lock"]
  /\ UNCHANGED <<NumWorkers, NumJobs, verbosity, Counter, Mu, mpc, spawned,
                 ret, wC, ppc, stderr>>
  /\ UNCHANGED <<argVars, driverVars, cleanseVars, modeVars>>

\* mutant: the footer is printed without waiting for the mutex
LockNoWait(w) ==
  /\ wpc[w] = "lock"
  /\ Mu' = WorkerOwner(w)
  /\ wpc' = [wpc EXCEPT ![w] = "footer"]
  /\ UNCHANGED <<NumWorkers, NumJobs, verbosity, Counter, HasErrors, mpc,
                 spawned, ret, wC, wExitCode, ppc, stderr, executed>>
  /\ UNCHANGED <<argVars, driverVars, cleanseVars, modeVars>>

\* std::lock_guard<std::mutex> Lock(Mu);
Lock(w) ==
  /\ wpc[w] = "lock"
  /\ Mu = Free
  /\ Mu' = WorkerOwner(w)
  /\ wpc' = [wpc EXCEPT ![w] = "footer"]
  /\ UNCHANGED <<NumWorkers, NumJobs, verbosity, Counter, HasErrors, mpc,
                 spawned, ret, wC, wExitCode, ppc, stderr, executed>>
  /\ UNCHANGED <<argVars, driverVars, cleanseVars, modeVars>>

\* Printf("================== Job %u exited with exit code %d ...", C, ExitCode);
PrintFooter(w) ==
  /\ wpc[w] = "footer"
  /\ stderr' = Printed(<<"footer", wC[w], wExitCode[w]>>)
  /\ wpc' = [wpc EXCEPT ![w] = "copylog"]
  /\ UNCHANGED <<NumWorkers, NumJobs, verbosity, Counter, HasErrors, Mu, mpc,
                 spawned, ret, wC, wExitCode, ppc, executed>>
  /\ UNCHANGED <<argVars, driverVars, cleanseVars, modeVars>>

\* fuzzer::CopyFileToErr(Log); then the lock_guard goes out of scope
CopyLogAndUnlock(w) ==
  /\ wpc[w] = "copylog"
  /\ stderr' = Printed(<<"log", wC[w], 0>>)
  /\ Mu' = IF Mu = WorkerOwner(w) THEN Free ELSE Mu
  /\ wpc' = [wpc EXCEPT ![w] = "fetch"]
  /\ UNCHANGED <<NumWorkers, NumJobs, verbosity, Counter, HasErrors, mpc,
                 spawned, ret, wC, wExitCode, ppc, executed>>
  /\ UNCHANGED <<argVars, driverVars, cleanseVars, modeVars>>

WorkerThread(w) ==
  \/ Fetch(w)
  \/ PrintCommandLine(w)
  \/ Execute(w)
  \/ Lock(w)
  \/ PrintFooter(w)
  \/ CopyLogAndUnlock(w)

\* SleepSeconds(600); std::lock_guard<std::mutex> Lock(Mu);
PulseLock ==
  /\ ppc = "sleep"
  /\ Mu = Free
  /\ Mu' = PulseOwner
  /\ ppc' = "print"
  /\ UNCHANGED <<NumWorkers, NumJobs, verbosity, Counter, HasErrors, mpc,
                 spawned, ret, wpc, wC, wExitCode, stderr, executed>>
  /\ UNCHANGED <<argVars, driverVars, cleanseVars, modeVars>>

\* Printf("pulse...\n"); then the lock_guard goes out of scope
PulsePrintAndUnlock ==
  /\ ppc = "print"
  /\ stderr' = Printed(<<"pulse", -1, 0>>)
  /\ Mu' = IF Mu = PulseOwner THEN Free ELSE Mu
  /\ ppc' = "sleep"
  /\ UNCHANGED <<NumWorkers, NumJobs, verbosity, Counter, HasErrors, mpc,
                 spawned, ret, wpc, wC, wExitCode, executed>>
  /\ UNCHANGED <<argVars, driverVars, cleanseVars, modeVars>>

PulseThread == PulseLock \/ PulsePrintAndUnlock

NextWorkers ==
  \/ SpawnWorker
  \/ JoinAndReturn
  \/ \E w \in Workers : WorkerThread(w)
  \/ PulseThread

SpecWorkers == InitWorkers /\ [][NextWorkers]_vars

\* Every spawned thread keeps being scheduled, every subprocess terminates and
\* a thread waiting for the mutex gets it when it is free again and again.
FairWorkers ==
  /\ WF_vars(SpawnWorker \/ JoinAndReturn)
  /\ \A w \in Workers :
       /\ WF_vars(Fetch(w) \/ PrintCommandLine(w) \/ Execute(w)
                    \/ PrintFooter(w) \/ CopyLogAndUnlock(w))
       /\ SF_vars(Lock(w))
  /\ WF_vars(PulsePrintAndUnlock)

LiveSpecWorkers == SpecWorkers /\ FairWorkers


\* ------------------------------------------------------------ FuzzerDriver
\* The flag arguments the dispatcher is run on.
DriverFlagArgs == <<
  <<"-", "h", "e", "l", "p", "=", "1">>,
  <<"-", "j", "o", "b", "s", "=", "2">>,
  <<"-", "w", "o", "r", "k", "e", "r", "s", "=", "1">>,
  <<"-", "m", "i", "n", "i", "m", "i", "z", "e", "_", "c", "r", "a", "s", "h", "=", "1">>,
  <<"-", "m", "i", "n", "i", "m", "i", "z", "e", "_", "c", "r", "a", "s", "h", "_", "i", "n", "t", "e", "r", "n", "a", "l", "_", "s", "t", "e", "p", "=", "1">>,
  <<"-", "c", "l", "e", "a", "n", "s", "e", "_", "c", "r", "a", "s", "h", "=", "1">>,
  <<"-", "f", "o", "r", "k", "=", "1">>,
  <<"-", "f", "o", "r", "k", "=", "-", "1">>,
  <<"-", "m", "e", "r", "g", "e", "=", "1">>,
  <<"-", "s", "e", "t", "_", "c", "o", "v", "e", "r", "_", "m", "e", "r", "g", "e", "=", "1">>,
  <<"-", "m", "e", "r", "g", "e", "_", "i", "n", "n", "e", "r", "=", "1">>,
  <<"-", "a", "n", "a", "l", "y", "z", "e", "_", "d", "i", "c", "t", "=", "1">>,
  <<"-", "c", "o", "l", "l", "e", "c", "t", "_", "d", "a", "t", "a", "_", "f", "l", "o", "w", "=", "c">>,
  <<"-", "d", "a", "t", "a", "_", "f", "l", "o", "w", "_", "t", "r", "a", "c", "e", "=", "t">>,
  <<"-", "d", "i", "c", "t", "=", "d">>,
  <<"-", "a", "r", "t", "i", "f", "a", "c", "t", "_", "p", "r", "e", "f", "i", "x", "=", "p">>,
  <<"-", "e", "x", "a", "c", "t", "_", "a", "r", "t", "i", "f", "a", "c", "t", "_", "p", "a", "t", "h", "=", "o">>,
  <<"-", "f", "e", "a", "t", "u", "r", "e", "s", "_", "d", "i", "r", "=", "e">>,
  <<"-", "c", "r", "e", "a", "t", "e", "_", "m", "i", "s", "s", "i", "n", "g", "_", "d", "i", "r", "s", "=", "1">>,
  <<"-", "m", "e", "r", "g", "e", "_", "c", "o", "n", "t", "r", "o", "l", "_", "f", "i", "l", "e", "=", "m">>,
  <<"-", "j", "o", "b", "s", "=", "x">>
>>

\* Paths given as positional arguments: "a" and "b" name regular files, "d" does not.
RegularFiles == {<<"a">>, <<"b">>}
\* the positional arguments of a call: none, a file, a directory, two files, a
\* file and a directory
DriverInputArgs ==
  {<<>>, << <<"a">> >>, << <<"d">> >>, << <<"a">>, <<"b">> >>, << <<"a">>, <<"d">> >>}
IsFile(Path) == Path \in RegularFiles

\* what IsDirectory and MkDirRecursive can find at a path that is no regular file
DirStates == {"dir", "creatable", "uncreatable"}
CpuCores == {1, 4, 8}

\* the ascending index tuples of at most k elements of lo..n
RECURSIVE Ascending(_, _, _)
Ascending(k, lo, n) ==
  IF k = 0 \/ lo > n THEN {<<>>}
  ELSE {<<>>} \cup UNION {{<<i>> \o t : t \in Ascending(k - 1, i + 1, n)} : i \in lo..n}

DriverArgvs ==
  {<<ProgName>> \o [i \in 1..Len(t) |-> DriverFlagArgs[t[i]]] \o inp :
     t \in Ascending(MaxFlagArgs, 1, Len(DriverFlagArgs)),
     inp \in DriverInputArgs}

\* static bool AllInputsAreFiles()
AllInputsAreFiles ==
  IF Inputs = <<>> THEN FALSE ELSE \A i \in 1..Len(Inputs) : IsFile(Inputs[i])

\* DirName of FuzzerIO: the path up to its last separator, "." if it has none
DirName(Path) ==
  LET seps == {i \in 1..Len(Path) : Path[i] = "/"} IN
  IF seps = {} THEN <<".">>
  ELSE LET last == CHOOSE i \in seps : \A j \in seps : j <= i
       IN IF last = 1 THEN <<"/">> ELSE SubSeq(Path, 1, last - 1)

\* static void ValidateDirectoryExists(Path, CreateDirectory): TRUE when it
\* returns, FALSE when it ends in exit(1); fs is what the file system holds at Path
ValidateDirectoryExists(Path, CreateDirectory, fs) ==
  IF Path = <<>> THEN FALSE
  ELSE IF fs = "dir" THEN TRUE
  ELSE IF CreateDirectory # 0 THEN fs = "creatable"
  ELSE FALSE

Ends(kind, code, by) ==
  /\ dpc' = "done"
  /\ exitKind' = kind
  /\ exitCode' = code
  /\ endedBy' = by

Continues(next) ==
  /\ dpc' = next
  /\ UNCHANGED <<exitKind, exitCode, endedBy>>

RunsMode(m) == modesRun' = Append(modesRun, m)

InitDriver ==
  /\ Args \in DriverArgvs
  /\ CustomMutator = FALSE
  /\ Flags = ZeroFlags
  /\ Inputs = <<>>
  /\ PrintedWarning = FALSE
  /\ argA = 0
  /\ fpc = "idle"
  /\ dpc = "start"
  /\ DictionaryEmpty = TRUE
  /\ atExit = FALSE
  /\ modesRun = <<>>
  /\ exitKind = "none"
  /\ exitCode = 0
  /\ endedBy = "none"
  /\ IdleWorkers
  /\ IdleCleanse
  /\ IdleModes

\* lines 671-693: LLVMFuzzerInitialize may have modified argv[0]; ParseFlags
DriverStart ==
  /\ dpc = "start"
  /\ \E modified \in BOOLEAN :
       IF modified
       THEN /\ Ends("exit", 1, "argv0")
            /\ UNCHANGED <<Flags, Inputs, PrintedWarning, argA, fpc>>
       ELSE LET ps == ParseFlags(Args, CustomMutator, PrintedWarning) IN
            /\ Flags' = ps.Flags
            /\ Inputs' = ps.Inputs
            /\ PrintedWarning' = ps.PrintedWarning
            /\ argA' = Len(Args)
            /\ IF ps.Threw
               THEN fpc' = "threw" /\ Ends("abort", 134, "stoul")
               ELSE fpc' = "returned" /\ Continues("help")
  /\ UNCHANGED <<Args, CustomMutator, DictionaryEmpty, atExit, modesRun>>
  /\ UNCHANGED <<workerVars, cleanseVars, modeVars>>

\* mutant: -help=1 prints the help and goes on
CheckHelpFallsThrough ==
  /\ dpc = "help"
  /\ Continues("jobs")
  /\ UNCHANGED <<modesRun, Args, CustomMutator, Flags, Inputs, PrintedWarning,
                 argA, fpc, DictionaryEmpty, atExit>>
  /\ UNCHANGED <<workerVars, cleanseVars, modeVars>>

\* if (Flags.help) { PrintHelp(); return 0; }
CheckHelp ==
  /\ dpc = "help"
  /\ IF Flags["help"] # 0
     THEN RunsMode("help") /\ Ends("return", 0, "help")
     ELSE UNCHANGED modesRun /\ Continues("jobs")
  /\ UNCHANGED <<Args, CustomMutator, Flags, Inputs, PrintedWarning, argA, fpc,
                 DictionaryEmpty, atExit>>
  /\ UNCHANGED <<workerVars, cleanseVars, modeVars>>

\* unsigned int comparison; the wrapped value 2^32 - m is written -m
ULess(a, b) == IF (a < 0) = (b < 0) THEN a < b ELSE b < 0
\* std::min(a, b) on unsigned int
UMin(a, b) == IF ULess(b, a) THEN b ELSE a

\* mutant: every core gets a worker
CheckWorkersAllCores ==
  /\ dpc = "jobs"
  /\ \E cores \in CpuCores : \E poolResult \in {0, 1} :
       LET workers == IF Flags["jobs"] # 0 /\ Flags["workers"] = 0
                      THEN UMin(cores, Flags["jobs"])
                      ELSE Flags["workers"]
       IN /\ Flags' = [Flags EXCEPT !["workers"] = workers]
          /\ IF workers # 0 /\ Flags["jobs"] # 0
             THEN RunsMode("workers") /\ Ends("return", poolResult, "workers")
             ELSE UNCHANGED modesRun /\ Continues("corpus_dir")
  /\ UNCHANGED <<Args, CustomMutator, Inputs, PrintedWarning, argA, fpc,
                 DictionaryEmpty, atExit>>
  /\ UNCHANGED <<workerVars, cleanseVars, modeVars>>

\* lines 706-713: the default number of workers, then the worker pool, whose
\* result RunInMultipleProcesses returns
CheckWorkers ==
  /\ dpc = "jobs"
  /\ \E cores \in CpuCores : \E poolResult \in {0, 1} :
       LET workers == IF Flags["jobs"] # 0 /\ Flags["workers"] = 0
                      THEN UMin(cores \div 2, Flags["jobs"])
                      ELSE Flags["workers"]
       IN /\ Flags' = [Flags EXCEPT !["workers"] = workers]
          /\ IF workers # 0 /\ Flags["jobs"] # 0
             THEN RunsMode("workers") /\ Ends("return", poolResult, "workers")
             ELSE UNCHANGED modesRun /\ Continues("corpus_dir")
  /\ UNCHANGED <<Args, CustomMutator, Inputs, PrintedWarning, argA, fpc,
                 DictionaryEmpty, atExit>>
  /\ UNCHANGED <<workerVars, cleanseVars, modeVars>>

\* lines 754-762: the first positional input, unless it is an existing file,
\* is the output corpus directory
CheckOutputCorpus ==
  /\ dpc = "corpus_dir"
  /\ IF Inputs # <<>> /\ Flags["minimize_crash_internal_step"] = 0 /\ ~IsFile(Inputs[1])
     THEN \E fs \in DirStates :
            IF ValidateDirectoryExists(Inputs[1], Flags["create_missing_dirs"], fs)
            THEN Continues("artifact_prefix")
            ELSE Ends("exit", 1, "corpus_dir")
     ELSE Continues("artifact_prefix")
  /\ UNCHANGED <<modesRun, Args, CustomMutator, Flags, Inputs, PrintedWarning,
                 argA, fpc, DictionaryEmpty, atExit>>
  /\ UNCHANGED <<workerVars, cleanseVars, modeVars>>

\* lines 766-777; IsSeparator(last character) keeps the prefix as the directory
CheckArtifactPrefix ==
  /\ dpc = "artifact_prefix"
  /\ IF Flags["artifact_prefix"] # nullptr
     THEN LET prefix == Flags["artifact_prefix"][1]
              dir == IF prefix # <<>> /\ prefix[Len(prefix)] = "/"
                     THEN prefix ELSE DirName(prefix)
          IN \E fs \in DirStates :
               IF ValidateDirectoryExists(dir, Flags["create_missing_dirs"], fs)
               THEN Continues("exact_artifact_path")
               ELSE Ends("exit", 1, "artifact_prefix")
     ELSE Continues("exact_artifact_path")
  /\ UNCHANGED <<modesRun, Args, CustomMutator, Flags, Inputs, PrintedWarning,
                 argA, fpc, DictionaryEmpty, atExit>>
  /\ UNCHANGED <<workerVars, cleanseVars, modeVars>>

\* lines 779-783
CheckExactArtifactPath ==
  /\ dpc = "exact_artifact_path"
  /\ IF Flags["exact_artifact_path"] # nullptr
     THEN \E fs \in DirStates :
            IF ValidateDirectoryExists(DirName(Flags["exact_artifact_path"][1]),
                                       Flags["create_missing_dirs"], fs)
            THEN Continues("dict")
            ELSE Ends("exit", 1, "exact_artifact_path")
     ELSE Continues("dict")
  /\ UNCHANGED <<modesRun, Args, CustomMutator, Flags, Inputs, PrintedWarning,
                 argA, fpc, DictionaryEmpty, atExit>>
  /\ UNCHANGED <<workerVars, cleanseVars, modeVars>>

\* lines 785-788: if (Flags.dict) if (!ParseDictionaryFile(...)) return 1;
\* the file decides whether it parses and whether it holds any entry
LoadDictionary ==
  /\ dpc = "dict"
  /\ IF Flags["dict"] # nullptr
     THEN \E parsed \in BOOLEAN : \E empty \in BOOLEAN :
            IF parsed
            THEN DictionaryEmpty' = empty /\ Continues("features_dir")
            ELSE UNCHANGED DictionaryEmpty /\ Ends("return", 1, "dict")
     ELSE UNCHANGED DictionaryEmpty /\ Continues("features_dir")
  /\ UNCHANGED <<modesRun, Args, CustomMutator, Flags, Inputs, PrintedWarning,
                 argA, fpc, atExit>>
  /\ UNCHANGED <<workerVars, cleanseVars, modeVars>>

\* lines 811-814
CheckFeaturesDir ==
  /\ dpc = "features_dir"
  /\ IF Flags["features_dir"] # nullptr
     THEN \E fs \in DirStates :
            IF ValidateDirectoryExists(Flags["features_dir"][1],
                                       Flags["create_missing_dirs"], fs)
            THEN Continues("data_flow")
            ELSE Ends("exit", 1, "features_dir")
     ELSE Continues("data_flow")
  /\ UNCHANGED <<modesRun, Args, CustomMutator, Flags, Inputs, PrintedWarning,
                 argA, fpc, DictionaryEmpty, atExit>>
  /\ UNCHANGED <<workerVars, cleanseVars, modeVars>>

\* lines 850-858: return CollectDataFlow(...)
CheckCollectDataFlow ==
  /\ dpc = "data_flow"
  /\ IF /\ Flags["collect_data_flow"] # nullptr
        /\ Flags["data_flow_trace"] # nullptr
        /\ Flags["fork"] = 0
        /\ ~(Flags["merge"] # 0 \/ Flags["set_cover_merge"] # 0)
     THEN \E code \in {0, 1} : Ends("return", code, "collect_data_flow")
     ELSE Continues("construct")
  /\ UNCHANGED <<modesRun, Args, CustomMutator, Flags, Inputs, PrintedWarning,
                 argA, fpc, DictionaryEmpty, atExit>>
  /\ UNCHANGED <<workerVars, cleanseVars, modeVars>>

\* lines 860-897: the fuzzer objects are built, the signal handlers set and
\* std::atexit(Fuzzer::StaticExitCallback) is called
Construct ==
  /\ dpc = "construct"
  /\ atExit' = TRUE
  /\ Continues("minimize_crash")
  /\ UNCHANGED <<modesRun, Args, CustomMutator, Flags, Inputs, PrintedWarning,
                 argA, fpc, DictionaryEmpty>>
  /\ UNCHANGED <<workerVars, cleanseVars, modeVars>>

\* mutant: the outer minimizer ends with exit(0)
ModeMinimizeCrashExits ==
  /\ dpc = "minimize_crash"
  /\ IF Flags["minimize_crash"] # 0
     THEN /\ RunsMode("minimize_crash")
          /\ IF Len(Inputs) # 1
             THEN Ends("exit", 1, "minimize_crash")
             ELSE \E crashed \in BOOLEAN :
                    IF crashed THEN Ends("exit", 0, "minimize_crash")
                    ELSE Ends("exit", 1, "minimize_crash")
     ELSE UNCHANGED modesRun /\ Continues("internal_step")
  /\ UNCHANGED <<Args, CustomMutator, Flags, Inputs, PrintedWarning, argA, fpc,
                 DictionaryEmpty, atExit>>
  /\ UNCHANGED <<workerVars, cleanseVars, modeVars>>

\* if (Flags.minimize_crash) return MinimizeCrashInput(Args, Options);
\* MinimizeCrashInput: exit(1) unless there is one input, exit(1) when a run
\* of the current input does not crash, return 0 when its loop breaks
ModeMinimizeCrash ==
  /\ dpc = "minimize_crash"
  /\ IF Flags["minimize_crash"] # 0
     THEN /\ RunsMode("minimize_crash")
          /\ IF Len(Inputs) # 1
             THEN Ends("exit", 1, "minimize_crash")
             ELSE \E crashed \in BOOLEAN :
                    IF crashed THEN Ends("return", 0, "minimize_crash")
                    ELSE Ends("exit", 1, "minimize_crash")
     ELSE UNCHANGED modesRun /\ Continues("internal_step")
  /\ UNCHANGED <<Args, CustomMutator, Flags, Inputs, PrintedWarning, argA, fpc,
                 DictionaryEmpty, atExit>>
  /\ UNCHANGED <<workerVars, cleanseVars, modeVars>>

\* if (Flags.minimize_crash_internal_step) return MinimizeCrashInputInternalStep(F, Corpus);
\* assert(Inputs->size() == 1) aborts, or is compiled out; every other path is
\* exit(0) or the death of the process inside MinimizeCrashLoop
ModeMinimizeCrashInternalStep ==
  /\ dpc = "internal_step"
  /\ IF Flags["minimize_crash_internal_step"] # 0
     THEN /\ RunsMode("minimize_crash_internal_step")
          /\ \E crashFound \in BOOLEAN : \E asserts \in BOOLEAN :
               IF Len(Inputs) # 1 /\ asserts
               THEN Ends("abort", 134, "minimize_crash_internal_step")
               ELSE IF crashFound
               THEN Ends("exit", 1, "minimize_crash_internal_step")
               ELSE Ends("exit", 0, "minimize_crash_internal_step")
     ELSE UNCHANGED modesRun /\ Continues("cleanse_crash")
  /\ UNCHANGED <<Args, CustomMutator, Flags, Inputs, PrintedWarning, argA, fpc,
                 DictionaryEmpty, atExit>>
  /\ UNCHANGED <<workerVars, cleanseVars, modeVars>>

\* if (Flags.cleanse_crash) return CleanseCrashInput(Args, Options);
\* CleanseCrashInput: exit(1) unless there is one input and
\* -exact_artifact_path, else return 0
ModeCleanseCrash ==
  /\ dpc = "cleanse_crash"
  /\ IF Flags["cleanse_crash"] # 0
     THEN /\ RunsMode("cleanse_crash")
          /\ IF Len(Inputs) # 1 \/ Flags["exact_artifact_path"] = nullptr
             THEN Ends("exit", 1, "cleanse_crash")
             ELSE Ends("return", 0, "cleanse_crash")
     ELSE UNCHANGED modesRun /\ Continues("run_individual")
  /\ UNCHANGED <<Args, CustomMutator, Flags, Inputs, PrintedWarning, argA, fpc,
                 DictionaryEmpty, atExit>>
  /\ UNCHANGED <<workerVars, cleanseVars, modeVars>>

\* mutant: the individual runs end without exit(0)
ModeRunIndividualFilesFallsThrough ==
  /\ dpc = "run_individual"
  /\ IF AllInputsAreFiles
     THEN RunsMode("run_individual") /\ Continues("fork")
     ELSE UNCHANGED modesRun /\ Continues("fork")
  /\ UNCHANGED <<Args, CustomMutator, Flags, Inputs, PrintedWarning, argA, fpc,
                 DictionaryEmpty, atExit>>
  /\ UNCHANGED <<workerVars, cleanseVars, modeVars>>

\* if (RunIndividualFiles) { ... F->PrintFinalStats(); exit(0); }
\* the target may also end the process while it runs an input
ModeRunIndividualFiles ==
  /\ dpc = "run_individual"
  /\ IF AllInputsAreFiles
     THEN /\ RunsMode("run_individual")
          /\ \E targetDies \in BOOLEAN :
               IF targetDies THEN Ends("exit", 1, "run_individual")
               ELSE Ends("exit", 0, "run_individual")
     ELSE UNCHANGED modesRun /\ Continues("fork")
  /\ UNCHANGED <<Args, CustomMutator, Flags, Inputs, PrintedWarning, argA, fpc,
                 DictionaryEmpty, atExit>>
  /\ UNCHANGED <<workerVars, cleanseVars, modeVars>>

\* FuzzWithFork of FuzzerFork: the fork-mode orchestrator ends the process
FuzzWithForkReturns == FALSE

\* if (Flags.fork) FuzzWithFork(F->GetMD().GetRand(), Options, Args, *Inputs, Flags.fork);
ModeFork ==
  /\ dpc = "fork"
  /\ IF Flags["fork"] # 0
     THEN /\ RunsMode("fork")
          /\ IF FuzzWithForkReturns THEN Continues("merge")
             ELSE \E code \in {0, 1} : Ends("exit", code, "fork")
     ELSE UNCHANGED modesRun /\ Continues("merge")
  /\ UNCHANGED <<Args, CustomMutator, Flags, Inputs, PrintedWarning, argA, fpc,
                 DictionaryEmpty, atExit>>
  /\ UNCHANGED <<workerVars, cleanseVars, modeVars>>

\* if (Flags.merge || Flags.set_cover_merge) Merge(F, Options, Args, *Inputs, ...);
\* Merge ends in exit(0) on both of its paths
ModeMerge ==
  /\ dpc = "merge"
  /\ IF Flags["merge"] # 0 \/ Flags["set_cover_merge"] # 0
     THEN RunsMode("merge") /\ Ends("exit", 0, "merge")
     ELSE UNCHANGED modesRun /\ Continues("merge_inner")
  /\ UNCHANGED <<Args, CustomMutator, Flags, Inputs, PrintedWarning, argA, fpc,
                 DictionaryEmpty, atExit>>
  /\ UNCHANGED <<workerVars, cleanseVars, modeVars>>

\* if (Flags.merge_inner) { ... assert(Flags.merge_control_file); ... exit(0); }
ModeMergeInner ==
  /\ dpc = "merge_inner"
  /\ IF Flags["merge_inner"] # nullptr
     THEN /\ RunsMode("merge_inner")
          /\ \E asserts \in BOOLEAN :
               IF Flags["merge_control_file"] = nullptr /\ asserts
               THEN Ends("abort", 134, "merge_inner")
               ELSE IF Flags["merge_control_file"] = nullptr
               THEN \E code \in {0, 139} : Ends("exit", code, "merge_inner")
               ELSE Ends("exit", 0, "merge_inner")
     ELSE UNCHANGED modesRun /\ Continues("analyze_dict")
  /\ UNCHANGED <<Args, CustomMutator, Flags, Inputs, PrintedWarning, argA, fpc,
                 DictionaryEmpty, atExit>>
  /\ UNCHANGED <<workerVars, cleanseVars, modeVars>>

\* if (Flags.analyze_dict) { ...; return 1 without dictionary or inputs;
\* AnalyzeDictionary returns 0, so exit(0) }
ModeAnalyzeDict ==
  /\ dpc = "analyze_dict"
  /\ IF Flags["analyze_dict"] # 0
     THEN /\ RunsMode("analyze_dict")
          /\ IF DictionaryEmpty \/ Inputs = <<>>
             THEN Ends("return", 1, "analyze_dict")
             ELSE Ends("exit", 0, "analyze_dict")
     ELSE UNCHANGED modesRun /\ Continues("loop")
  /\ UNCHANGED <<Args, CustomMutator, Flags, Inputs, PrintedWarning, argA, fpc,
                 DictionaryEmpty, atExit>>
  /\ UNCHANGED <<workerVars, cleanseVars, modeVars>>

\* F->Loop(CorporaFiles); ...; exit(0);  // Don't let F destroy itself.
ModeLoop ==
  /\ dpc = "loop"
  /\ RunsMode("loop")
  /\ \E targetDies \in BOOLEAN :
       IF targetDies THEN Ends("exit", 1, "loop") ELSE Ends("exit", 0, "loop")
  /\ UNCHANGED <<Args, CustomMutator, Flags, Inputs, PrintedWarning, argA, fpc,
                 DictionaryEmpty, atExit>>
  /\ UNCHANGED <<workerVars, cleanseVars, modeVars>>

NextDriver ==
  \/ DriverStart
  \/ CheckHelp
  \/ CheckWorkers
  \/ CheckOutputCorpus
  \/ CheckArtifactPrefix
  \/ CheckExactArtifactPath
  \/ LoadDictionary
  \/ CheckFeaturesDir
  \/ CheckCollectDataFlow
  \/ Construct
  \/ ModeMinimizeCrash
  \/ ModeMinimizeCrashInternalStep
  \/ ModeCleanseCrash
  \/ ModeRunIndividualFiles
  \/ ModeFork
  \/ ModeMerge
  \/ ModeMergeInner
  \/ ModeAnalyzeDict
  \/ ModeLoop

SpecDriver == InitDriver /\ [][NextDriver]_vars

\* -------------------------------------------------------- CleanseCrashInput
ArgCleanseCrash == <<"-", "c", "l", "e", "a", "n", "s", "e", "_", "c", "r", "a", "s", "h", "=", "1">>
ArgExactArtifactPath == <<"-", "e", "x", "a", "c", "t", "_", "a", "r", "t", "i", "f", "a", "c", "t", "_", "p", "a", "t", "h", "=", "o">>

\* const std::vector<uint8_t> ReplacementBytes = {' ', 0xff};
ReplacementBytes == <<32, 255>>
kCleanseAttempts == 5
\* the byte values input files are made of: the two replacement bytes and 'A'
Bytes == {32, 255, 65}
nofile == <<>>
FileOf(data) == <<data>>
IsReplacementByte(b) == \E k \in 1..Len(ReplacementBytes) : ReplacementBytes[k] = b

CleanseArgvs ==
  {<<ProgName, ArgCleanseCrash>> \o opt \o inp :
     opt \in {<<>>, <<ArgExactArtifactPath>>},
     inp \in {<<>>, << <<"a">> >>, << <<"a">>, <<"b">> >>}}

\* FuzzerDriver has parsed the flags and called CleanseCrashInput(Args, Options)
InitCleanse ==
  /\ Args \in CleanseArgvs
  /\ CustomMutator = FALSE
  /\ Flags = ParseFlags(Args, FALSE, FALSE).Flags
  /\ Inputs = ParseFlags(Args, FALSE, FALSE).Inputs
  /\ PrintedWarning = FALSE
  /\ argA = Len(Args)
  /\ fpc = "returned"
  /\ dpc = "in_cleanse_crash"
  /\ DictionaryEmpty = TRUE
  /\ atExit = TRUE
  /\ modesRun = <<"cleanse_crash">>
  /\ exitKind = "none"
  /\ exitCode = 0
  /\ endedBy = "none"
  /\ cpc = "validate"
  /\ InputData \in SeqsUpTo(Bytes, MaxInputLen)
  /\ U = <<>>
  /\ Size = 0
  /\ NumAttempts = 0
  /\ Idx = 0
  /\ Cand = 0
  /\ OriginalByte = 0
  /\ Changed = FALSE
  /\ TmpFile = nofile
  /\ OutputFile = nofile
  /\ lastRun = [Data |-> <<>>, Code |-> -1]
  /\ IdleWorkers
  /\ IdleModes

\* mutant: -exact_artifact_path is not required
CleanseValidateInputsOnly ==
  /\ cpc = "validate"
  /\ IF Len(Inputs) # 1
     THEN cpc' = "done" /\ Ends("exit", 1, "cleanse_crash")
     ELSE cpc' = "load" /\ UNCHANGED <<dpc, exitKind, exitCode, endedBy>>
  /\ UNCHANGED <<InputData, U, Size, NumAttempts, Idx, Cand, OriginalByte,
                 Changed, TmpFile, OutputFile, lastRun>>
  /\ UNCHANGED <<argVars, workerVars, DictionaryEmpty, atExit, modesRun, modeVars>>

\* lines 369-373: if (Inputs->size() != 1 || !Flags.exact_artifact_path) exit(1);
CleanseValidate ==
  /\ cpc = "validate"
  /\ IF Len(Inputs) # 1 \/ Flags["exact_artifact_path"] = nullptr
     THEN cpc' = "done" /\ Ends("exit", 1, "cleanse_crash")
     ELSE cpc' = "load" /\ UNCHANGED <<dpc, exitKind, exitCode, endedBy>>
  /\ UNCHANGED <<InputData, U, Size, NumAttempts, Idx, Cand, OriginalByte,
                 Changed, TmpFile, OutputFile, lastRun>>
  /\ UNCHANGED <<argVars, workerVars, DictionaryEmpty, atExit, modesRun, modeVars>>

\* lines 374-389: auto U = FileToVector(CurrentFilePath); size_t Size = U.size();
CleanseLoad ==
  /\ cpc = "load"
  /\ U' = InputData
  /\ Size' = Len(InputData)
  /\ NumAttempts' = 0
  /\ cpc' = "attempt"
  /\ UNCHANGED <<InputData, Idx, Cand, OriginalByte, Changed, TmpFile,
                 OutputFile, lastRun, dpc, exitKind, exitCode, endedBy>>
  /\ UNCHANGED <<argVars, workerVars, DictionaryEmpty, atExit, modesRun, modeVars>>

\* for (int NumAttempts = 0; NumAttempts < 5; ...) { bool Changed = false;
CleanseAttempt ==
  /\ cpc = "attempt"
  /\ IF NumAttempts < kCleanseAttempts
     THEN Changed' = FALSE /\ Idx' = 0 /\ cpc' = "index"
     ELSE UNCHANGED <<Changed, Idx>> /\ cpc' = "return"
  /\ UNCHANGED <<InputData, U, Size, NumAttempts, Cand, OriginalByte, TmpFile,
                 OutputFile, lastRun, dpc, exitKind, exitCode, endedBy>>
  /\ UNCHANGED <<argVars, workerVars, DictionaryEmpty, atExit, modesRun, modeVars>>

\* mutant: a byte that is a replacement byte is not skipped
CleanseIndexNoSkip ==
  /\ cpc = "index"
  /\ IF Idx < Size
     THEN /\ OriginalByte' = U[Idx + 1]
          /\ Cand' = 0 /\ cpc' = "replace" /\ UNCHANGED Idx
          /\ UNCHANGED NumAttempts
     ELSE /\ IF ~Changed
             THEN cpc' = "return" /\ UNCHANGED NumAttempts
             ELSE cpc' = "attempt" /\ NumAttempts' = NumAttempts + 1
          /\ UNCHANGED <<OriginalByte, Idx, Cand>>
  /\ UNCHANGED <<InputData, U, Size, Changed, TmpFile, OutputFile, lastRun,
                 dpc, exitKind, exitCode, endedBy>>
  /\ UNCHANGED <<argVars, workerVars, DictionaryEmpty, atExit, modesRun, modeVars>>

\* mutant: a pass without a committed replacement does not end the search
CleanseIndexIgnoresChanged ==
  /\ cpc = "index"
  /\ IF Idx < Size
     THEN /\ OriginalByte' = U[Idx + 1]
          /\ IF IsReplacementByte(U[Idx + 1])
             THEN Idx' = Idx + 1 /\ cpc' = "index" /\ UNCHANGED Cand
             ELSE Cand' = 0 /\ cpc' = "replace" /\ UNCHANGED Idx
          /\ UNCHANGED NumAttempts
     ELSE /\ cpc' = "attempt" /\ NumAttempts' = NumAttempts + 1
          /\ UNCHANGED <<OriginalByte, Idx, Cand>>
  /\ UNCHANGED <<InputData, U, Size, Changed, TmpFile, OutputFile, lastRun,
                 dpc, exitKind, exitCode, endedBy>>
  /\ UNCHANGED <<argVars, workerVars, DictionaryEmpty, atExit, modesRun, modeVars>>

\* lines 394-401: for (Idx < Size) { OriginalByte = U[Idx]; if it is one of
\* ReplacementBytes continue; and line 417 after the last index:
\* if (!Changed) break;
CleanseIndex ==
  /\ cpc = "index"
  /\ IF Idx < Size
     THEN /\ OriginalByte' = U[Idx + 1]
          /\ IF IsReplacementByte(U[Idx + 1])
             THEN Idx' = Idx + 1 /\ cpc' = "index" /\ UNCHANGED Cand
             ELSE Cand' = 0 /\ cpc' = "replace" /\ UNCHANGED Idx
          /\ UNCHANGED NumAttempts
     ELSE /\ IF ~Changed
             THEN cpc' = "return" /\ UNCHANGED NumAttempts
             ELSE cpc' = "attempt" /\ NumAttempts' = NumAttempts + 1
          /\ UNCHANGED <<OriginalByte, Idx, Cand>>
  /\ UNCHANGED <<InputData, U, Size, Changed, TmpFile, OutputFile, lastRun,
                 dpc, exitKind, exitCode, endedBy>>
  /\ UNCHANGED <<argVars, workerVars, DictionaryEmpty, atExit, modesRun, modeVars>>

\* lines 402-404: for (auto NewByte : ReplacementBytes) { U[Idx] = NewByte;
\* WriteToFile(U, TmpFilePath);
CleanseReplace ==
  /\ cpc = "replace"
  /\ IF Cand < Len(ReplacementBytes)
     THEN /\ U' = [U EXCEPT ![Idx + 1] = ReplacementBytes[Cand + 1]]
          /\ TmpFile' = FileOf([U EXCEPT ![Idx + 1] = ReplacementBytes[Cand + 1]])
          /\ cpc' = "execute"
          /\ UNCHANGED Idx
     ELSE /\ Idx' = Idx + 1
          /\ cpc' = "index"
          /\ UNCHANGED <<U, TmpFile>>
  /\ UNCHANGED <<InputData, Size, NumAttempts, Cand, OriginalByte, Changed,
                 OutputFile, lastRun, dpc, exitKind, exitCode, endedBy>>
  /\ UNCHANGED <<argVars, workerVars, DictionaryEmpty, atExit, modesRun, modeVars>>

\* mutant: the test of the exit code is inverted
CleanseExecuteKeepsOnZero ==
  /\ cpc = "execute"
  /\ \E ExitCode \in ExitCodes :
       /\ lastRun' = [Data |-> TmpFile[1], Code |-> ExitCode]
       /\ TmpFile' = nofile
       /\ IF ExitCode # 0
          THEN /\ U' = [U EXCEPT ![Idx + 1] = OriginalByte]
               /\ Cand' = Cand + 1
               /\ cpc' = "replace"
               /\ UNCHANGED <<Changed, OutputFile, Idx>>
          ELSE /\ Changed' = TRUE
               /\ OutputFile' = FileOf(U)
               /\ Idx' = Idx + 1
               /\ cpc' = "index"
               /\ UNCHANGED <<U, Cand>>
  /\ UNCHANGED <<InputData, Size, NumAttempts, OriginalByte, dpc, exitKind,
                 exitCode, endedBy>>
  /\ UNCHANGED <<argVars, workerVars, DictionaryEmpty, atExit, modesRun, modeVars>>

\* mutant: the revert does not restore OriginalByte
CleanseExecuteRevertsToZero ==
  /\ cpc = "execute"
  /\ \E ExitCode \in ExitCodes :
       /\ lastRun' = [Data |-> TmpFile[1], Code |-> ExitCode]
       /\ TmpFile' = nofile
       /\ IF ExitCode = 0
          THEN /\ U' = [U EXCEPT ![Idx + 1] = 0]
               /\ Cand' = Cand + 1
               /\ cpc' = "replace"
               /\ UNCHANGED <<Changed, OutputFile, Idx>>
          ELSE /\ Changed' = TRUE
               /\ OutputFile' = FileOf(U)
               /\ Idx' = Idx + 1
               /\ cpc' = "index"
               /\ UNCHANGED <<U, Cand>>
  /\ UNCHANGED <<InputData, Size, NumAttempts, OriginalByte, dpc, exitKind,
                 exitCode, endedBy>>
  /\ UNCHANGED <<argVars, workerVars, DictionaryEmpty, atExit, modesRun, modeVars>>

\* lines 405-415: auto ExitCode = ExecuteCommand(Cmd); RemoveFile(TmpFilePath);
\* if (!ExitCode) U[Idx] = OriginalByte; else { Changed = true;
\* WriteToFile(U, OutputFilePath); break; }
\* The subprocess reads the temporary file; its exit code is the environment's.
CleanseExecute ==
  /\ cpc = "execute"
  /\ \E ExitCode \in ExitCodes :
       /\ lastRun' = [Data |-> TmpFile[1], Code |-> ExitCode]
       /\ TmpFile' = nofile
       /\ IF ExitCode = 0
          THEN /\ U' = [U EXCEPT ![Idx + 1] = OriginalByte]
               /\ Cand' = Cand + 1
               /\ cpc' = "replace"
               /\ UNCHANGED <<Changed, OutputFile, Idx>>
          ELSE /\ Changed' = TRUE
               /\ OutputFile' = FileOf(U)
               /\ Idx' = Idx + 1
               /\ cpc' = "index"
               /\ UNCHANGED <<U, Cand>>
  /\ UNCHANGED <<InputData, Size, NumAttempts, OriginalByte, dpc, exitKind,
                 exitCode, endedBy>>
  /\ UNCHANGED <<argVars, workerVars, DictionaryEmpty, atExit, modesRun, modeVars>>

\* return 0;
CleanseReturn ==
  /\ cpc = "return"
  /\ cpc' = "done"
  /\ Ends("return", 0, "cleanse_crash")
  /\ UNCHANGED <<InputData, U, Size, NumAttempts, Idx, Cand, OriginalByte,
                 Changed, TmpFile, OutputFile, lastRun>>
  /\ UNCHANGED <<argVars, workerVars, DictionaryEmpty, atExit, modesRun, modeVars>>

NextCleanse ==
  \/ CleanseValidate
  \/ CleanseLoad
  \/ CleanseAttempt
  \/ CleanseIndex
  \/ CleanseReplace
  \/ CleanseExecute
  \/ CleanseReturn

SpecCleanse == InitCleanse /\ [][NextCleanse]_vars

\* the inputs of a call whose passes are counted: the short ones, and one long
\* enough for the limit on the number of passes to be met
CleansePassInputs == SeqsUpTo(Bytes, MaxInputLen) \cup {<<65, 65, 65, 65, 65, 65>>}

InitCleansePasses ==
  /\ Args \in CleanseArgvs
  /\ CustomMutator = FALSE
  /\ Flags = ParseFlags(Args, FALSE, FALSE).Flags
  /\ Inputs = ParseFlags(Args, FALSE, FALSE).Inputs
  /\ PrintedWarning = FALSE
  /\ argA = Len(Args)
  /\ fpc = "returned"
  /\ dpc = "in_cleanse_crash"
  /\ DictionaryEmpty = TRUE
  /\ atExit = TRUE
  /\ modesRun = <<"cleanse_crash">>
  /\ exitKind = "none"
  /\ exitCode = 0
  /\ endedBy = "none"
  /\ cpc = "validate"
  /\ InputData \in CleansePassInputs
  /\ U = <<>>
  /\ Size = 0
  /\ NumAttempts = 0
  /\ Idx = 0
  /\ Cand = 0
  /\ OriginalByte = 0
  /\ Changed = FALSE
  /\ TmpFile = nofile
  /\ OutputFile = nofile
  /\ lastRun = [Data |-> <<>>, Code |-> -1]
  /\ IdleWorkers
  /\ IdleModes

\* the function is sequential and every subprocess it waits for ends: a step
\* that can be taken is taken
LiveSpecCleanse == InitCleansePasses /\ [][NextCleanse]_vars /\ WF_vars(NextCleanse)

\* ------------------------------------------------------- MinimizeCrashInput
MaxUnitSize == 3
\* the units files are made of
Units == SeqsUpTo({65, 66}, MaxUnitSize)

ArgMinimizeCrash == <<"-", "m", "i", "n", "i", "m", "i", "z", "e", "_", "c", "r", "a", "s", "h", "=", "1">>
MinimizeArgvs ==
  {<<ProgName, ArgMinimizeCrash>> \o opt \o inp :
     opt \in {<<>>, <<ArgExactArtifactPath>>},
     inp \in {<<>>, << <<"a">> >>, << <<"a">>, <<"b">> >>}}

\* the paths MinimizeCrashInput reads and writes: InputFilePath,
\* Flags.exact_artifact_path and Options.ArtifactPrefix + "minimized-from-" +
\* Hash(U), one per unit U
InPath == [Kind |-> "in", Of |-> <<>>]
OutPath == [Kind |-> "out", Of |-> <<>>]
AutoPath(u) == [Kind |-> "auto", Of |-> u]
ReadFile(files, path) ==
  CASE path.Kind = "in" -> files.In
    [] path.Kind = "out" -> files.Out
    [] OTHER -> files.Auto[path.Of]
WriteFile(files, path, data) ==
  CASE path.Kind = "in" -> [files EXCEPT !.In = FileOf(data)]
    [] path.Kind = "out" -> [files EXCEPT !.Out = FileOf(data)]
    [] OTHER -> [files EXCEPT !.Auto[path.Of] = FileOf(data)]

\* what a subprocess prints: whether it holds "DEDUP_TOKEN:", the text that
\* follows the marker, and whether a newline ends that line
CmdOutputs == [Marker : BOOLEAN, Tok : {"A", "B"}, Newline : BOOLEAN]

\* static std::string GetDedupTokenFromCmdOutput(const std::string &S)
GetDedupTokenFromCmdOutput(S) ==
  IF ~S.Marker THEN <<>>
  ELSE IF ~S.Newline THEN <<>>
  ELSE <<"DEDUP_TOKEN:", S.Tok>>

\* mutant: the inner step does not give up on a unit of fewer than two bytes
InnerExitCodesAnySize(u) == ExitCodes
\* MinimizeCrashInputInternalStep, run as the subprocess: exit(0) for a unit
\* of fewer than two bytes, else MinimizeCrashLoop with mutations of at most
\* U.size() - 1 bytes
InnerExitCodes(u) == IF Len(u) < 2 THEN {0} ELSE ExitCodes
Smaller(u) == IF Len(u) = 0 THEN {<<>>} ELSE {x \in Units : Len(x) < Len(u)}
\* the inner step writes the smaller crashing unit it found to its
\* -exact_artifact_path and exits non-zero; with exit code 0 it writes nothing
InnerStepWrites(files, path, code, produced) ==
  IF code # 0 THEN WriteFile(files, path, produced) ELSE files

\* lines 464-467
ArtifactPath == IF Flags["exact_artifact_path"] # nullptr THEN OutPath ELSE AutoPath(MinU)

\* FuzzerDriver has parsed the flags and called MinimizeCrashInput(Args, Options)
InitMinimize ==
  /\ Args \in MinimizeArgvs
  /\ CustomMutator = FALSE
  /\ Flags = ParseFlags(Args, FALSE, FALSE).Flags
  /\ Inputs = ParseFlags(Args, FALSE, FALSE).Inputs
  /\ PrintedWarning = FALSE
  /\ argA = Len(Args)
  /\ fpc = "returned"
  /\ dpc = "in_minimize_crash"
  /\ DictionaryEmpty = TRUE
  /\ atExit = TRUE
  /\ modesRun = <<"minimize_crash">>
  /\ exitKind = "none"
  /\ exitCode = 0
  /\ endedBy = "none"
  /\ npc = "validate"
  /\ BaseCmd = NoCommand
  /\ CurrentFilePath = [Kind |-> "none", Of |-> <<>>]
  /\ MinU = <<>>
  /\ DedupToken1 = <<>>
  /\ \E u \in Units :
       MinFiles = [In |-> FileOf(u), Out |-> nofile, Auto |-> [x \in Units |-> nofile]]
  /\ minLog = [Plain |-> <<>>, Inner |-> <<>>, Reduced |-> FALSE, Adopted |-> FALSE,
              Iterations |-> 0]
  /\ IdleWorkers
  /\ IdleCleanse
  /\ IdleRun
  /\ IdleDict

\* mutant: the command is completed only when runs has its default
MinValidateInjectsWhenDefault ==
  /\ npc = "validate"
  /\ IF Len(Inputs) # 1
     THEN /\ npc' = "done"
          /\ Ends("exit", 1, "minimize_crash")
          /\ UNCHANGED <<CurrentFilePath, BaseCmd>>
     ELSE /\ npc' = "read"
          /\ BaseCmd' = [Ctor |-> Args,
                         RemovedFlags |-> <<"minimize_crash", "exact_artifact_path">>,
                         RemovedArguments |-> <<Inputs[1]>>,
                         AddedFlags |-> IF Flags["runs"] = -1 /\ Flags["max_total_time"] = 0
                                        THEN << <<"max_total_time", "600">> >>
                                        ELSE <<>>]
          /\ CurrentFilePath' = InPath
          /\ UNCHANGED <<dpc, exitKind, exitCode, endedBy>>
  /\ UNCHANGED <<MinU, DedupToken1, MinFiles, minLog>>
  /\ UNCHANGED <<argVars, workerVars, cleanseVars, runVars, dictVars, DictionaryEmpty, atExit, modesRun>>

\* lines 424-441: if (Inputs->size() != 1) exit(1); Command BaseCmd(Args);
\* removeFlag, removeArgument; if (Flags.runs <= 0 && Flags.max_total_time == 0)
\* BaseCmd.addFlag("max_total_time", "600"); CurrentFilePath = InputFilePath
MinValidate ==
  /\ npc = "validate"
  /\ IF Len(Inputs) # 1
     THEN /\ npc' = "done"
          /\ Ends("exit", 1, "minimize_crash")
          /\ UNCHANGED <<CurrentFilePath, BaseCmd>>
     ELSE /\ npc' = "read"
          /\ BaseCmd' = [Ctor |-> Args,
                         RemovedFlags |-> <<"minimize_crash", "exact_artifact_path">>,
                         RemovedArguments |-> <<Inputs[1]>>,
                         AddedFlags |-> IF Flags["runs"] <= 0 /\ Flags["max_total_time"] = 0
                                        THEN << <<"max_total_time", "600">> >>
                                        ELSE <<>>]
          /\ CurrentFilePath' = InPath
          /\ UNCHANGED <<dpc, exitKind, exitCode, endedBy>>
  /\ UNCHANGED <<MinU, DedupToken1, MinFiles, minLog>>
  /\ UNCHANGED <<argVars, workerVars, cleanseVars, runVars, dictVars, DictionaryEmpty, atExit, modesRun>>

\* line 444: Unit U = FileToVector(CurrentFilePath);
MinRead ==
  /\ npc = "read"
  /\ MinU' = ReadFile(MinFiles, CurrentFilePath)[1]
  /\ npc' = "plain"
  /\ minLog' = [minLog EXCEPT !.Iterations = @ + 1]
  /\ UNCHANGED <<CurrentFilePath, DedupToken1, MinFiles, dpc, exitKind,
                 exitCode, endedBy>>
  /\ UNCHANGED <<argVars, workerVars, cleanseVars, runVars, dictVars, DictionaryEmpty, atExit, modesRun, BaseCmd>>

\* mutant: the exit code of the plain run is not tested
MinPlainRunGoesOn ==
  /\ npc = "plain"
  /\ \E code \in ExitCodes : \E S \in CmdOutputs :
       LET Success == code = 0 IN
       /\ minLog' = [minLog EXCEPT !.Plain = <<[Input |-> MinU, Code |-> code]>>]
       /\ IF FALSE
          THEN /\ npc' = "done"
               /\ Ends("exit", 1, "minimize_crash")
               /\ UNCHANGED DedupToken1
          ELSE /\ DedupToken1' = GetDedupTokenFromCmdOutput(S)
               /\ npc' = "inner"
               /\ UNCHANGED <<dpc, exitKind, exitCode, endedBy>>
  /\ UNCHANGED <<CurrentFilePath, MinU, MinFiles>>
  /\ UNCHANGED <<argVars, workerVars, cleanseVars, runVars, dictVars, DictionaryEmpty, atExit, modesRun, BaseCmd>>

\* lines 448-462: bool Success = ExecuteCommand(Cmd, &CmdOutput);
\* if (Success) exit(1); DedupToken1 = GetDedupTokenFromCmdOutput(CmdOutput);
MinPlainRun ==
  /\ npc = "plain"
  /\ \E code \in ExitCodes : \E S \in CmdOutputs :
       LET Success == code = 0 IN
       /\ minLog' = [minLog EXCEPT !.Plain = <<[Input |-> MinU, Code |-> code]>>]
       /\ IF Success
          THEN /\ npc' = "done"
               /\ Ends("exit", 1, "minimize_crash")
               /\ UNCHANGED DedupToken1
          ELSE /\ DedupToken1' = GetDedupTokenFromCmdOutput(S)
               /\ npc' = "inner"
               /\ UNCHANGED <<dpc, exitKind, exitCode, endedBy>>
  /\ UNCHANGED <<CurrentFilePath, MinU, MinFiles>>
  /\ UNCHANGED <<argVars, workerVars, cleanseVars, runVars, dictVars, DictionaryEmpty, atExit, modesRun, BaseCmd>>

\* mutant: the dedup tokens are not compared
MinInnerStepIgnoresTokens ==
  /\ npc = "inner"
  /\ \E code \in InnerExitCodes(MinU) : \E S \in CmdOutputs : \E produced \in Smaller(MinU) :
       LET Success == code = 0
           DedupToken2 == GetDedupTokenFromCmdOutput(S)
           written == InnerStepWrites(MinFiles, ArtifactPath, code, produced)
       IN /\ minLog' = [minLog EXCEPT
                          !.Inner = <<[Input |-> MinU, Code |-> code, Token |-> DedupToken2,
                                        Wrote |-> IF code # 0 THEN <<produced>> ELSE <<>>]>>,
                          !.Reduced = minLog.Reduced \/ code # 0,
                          !.Adopted = minLog.Adopted \/ ~(Success \/ FALSE)]
          /\ IF Success \/ FALSE
             THEN /\ IF Flags["exact_artifact_path"] # nullptr
                     THEN /\ CurrentFilePath' = OutPath
                          /\ MinFiles' = WriteFile(written, OutPath, MinU)
                     ELSE /\ MinFiles' = written
                          /\ UNCHANGED CurrentFilePath
                  /\ npc' = "return"
             ELSE /\ CurrentFilePath' = ArtifactPath
                  /\ MinFiles' = written
                  /\ npc' = "read"
  /\ UNCHANGED <<MinU, DedupToken1, dpc, exitKind, exitCode, endedBy>>
  /\ UNCHANGED <<argVars, workerVars, cleanseVars, runVars, dictVars, DictionaryEmpty, atExit, modesRun, BaseCmd>>

\* mutant: the stopping paths keep the artifact of the inner step
MinInnerStepKeepsArtifact ==
  /\ npc = "inner"
  /\ \E code \in InnerExitCodes(MinU) : \E S \in CmdOutputs : \E produced \in Smaller(MinU) :
       LET Success == code = 0
           DedupToken2 == GetDedupTokenFromCmdOutput(S)
           written == InnerStepWrites(MinFiles, ArtifactPath, code, produced)
       IN /\ minLog' = [minLog EXCEPT
                          !.Inner = <<[Input |-> MinU, Code |-> code, Token |-> DedupToken2,
                                        Wrote |-> IF code # 0 THEN <<produced>> ELSE <<>>]>>,
                          !.Reduced = minLog.Reduced \/ code # 0,
                          !.Adopted = minLog.Adopted \/ ~(Success \/ DedupToken1 # DedupToken2)]
          /\ IF Success \/ DedupToken1 # DedupToken2
             THEN /\ IF Flags["exact_artifact_path"] # nullptr
                     THEN /\ CurrentFilePath' = OutPath
                          /\ MinFiles' = written
                     ELSE /\ MinFiles' = written
                          /\ UNCHANGED CurrentFilePath
                  /\ npc' = "return"
             ELSE /\ CurrentFilePath' = ArtifactPath
                  /\ MinFiles' = written
                  /\ npc' = "read"
  /\ UNCHANGED <<MinU, DedupToken1, dpc, exitKind, exitCode, endedBy>>
  /\ UNCHANGED <<argVars, workerVars, cleanseVars, runVars, dictVars, DictionaryEmpty, atExit, modesRun, BaseCmd>>

\* lines 464-499: the inner step is run on the current input with
\* -exact_artifact_path=ArtifactPath; on success, and on a dedup token that
\* differs, U is written to Flags.exact_artifact_path if set and the loop
\* breaks; else CurrentFilePath = ArtifactPath
MinInnerStep ==
  /\ npc = "inner"
  /\ \E code \in InnerExitCodes(MinU) : \E S \in CmdOutputs : \E produced \in Smaller(MinU) :
       LET Success == code = 0
           DedupToken2 == GetDedupTokenFromCmdOutput(S)
           written == InnerStepWrites(MinFiles, ArtifactPath, code, produced)
       IN /\ minLog' = [minLog EXCEPT
                          !.Inner = <<[Input |-> MinU, Code |-> code, Token |-> DedupToken2,
                                        Wrote |-> IF code # 0 THEN <<produced>> ELSE <<>>]>>,
                          !.Reduced = minLog.Reduced \/ code # 0,
                          !.Adopted = minLog.Adopted \/ ~(Success \/ DedupToken1 # DedupToken2)]
          /\ IF Success \/ DedupToken1 # DedupToken2
             THEN /\ IF Flags["exact_artifact_path"] # nullptr
                     THEN /\ CurrentFilePath' = OutPath
                          /\ MinFiles' = WriteFile(written, OutPath, MinU)
                     ELSE /\ MinFiles' = written
                          /\ UNCHANGED CurrentFilePath
                  /\ npc' = "return"
             ELSE /\ CurrentFilePath' = ArtifactPath
                  /\ MinFiles' = written
                  /\ npc' = "read"
  /\ UNCHANGED <<MinU, DedupToken1, dpc, exitKind, exitCode, endedBy>>
  /\ UNCHANGED <<argVars, workerVars, cleanseVars, runVars, dictVars, DictionaryEmpty, atExit, modesRun, BaseCmd>>

\* return 0;
MinReturn ==
  /\ npc = "return"
  /\ npc' = "done"
  /\ Ends("return", 0, "minimize_crash")
  /\ UNCHANGED <<CurrentFilePath, MinU, DedupToken1, MinFiles, minLog>>
  /\ UNCHANGED <<argVars, workerVars, cleanseVars, runVars, dictVars, DictionaryEmpty, atExit, modesRun, BaseCmd>>

NextMinimize ==
  \/ MinValidate
  \/ MinRead
  \/ MinPlainRun
  \/ MinInnerStep
  \/ MinReturn

SpecMinimize == InitMinimize /\ [][NextMinimize]_vars

\* the function is sequential and every subprocess it waits for ends: a step
\* that can be taken is taken
LiveSpecMinimize == InitMinimize /\ [][NextMinimize]_vars /\ WF_vars(NextMinimize)

\* ------------------------------------- the two crash modes, one call of either
InitCrashModes == InitCleanse \/ InitMinimize

NextCrashModes ==
  \/ CleanseValidate
  \/ CleanseLoad
  \/ CleanseAttempt
  \/ CleanseIndex
  \/ CleanseReplace
  \/ CleanseExecute
  \/ CleanseReturn
  \/ MinValidate
  \/ MinRead
  \/ MinPlainRun
  \/ MinInnerStep
  \/ MinReturn

SpecCrashModes == InitCrashModes /\ [][NextCrashModes]_vars

\* ------------------------------ running the inputs one by one (lines 908-928)
MaxRuns == 2

\* -runs=<k> for a one-digit k
RunsArg(k) == <<"-", "r", "u", "n", "s", "=", Digits[k + 1]>>

\* argv: the program, at most one -runs flag, and positional arguments that
\* are all files, or not
RunInputArgs ==
  DriverInputArgs \cup {<< <<"b">>, <<"a">> >>, << <<"a">>, <<"a">> >>}
RunArgvs ==
  {<<ProgName>> \o fl \o inp :
     fl \in {<<>>} \cup {<<RunsArg(k)>> : k \in 0..MaxRuns},
     inp \in RunInputArgs}

\* FuzzerDriver has parsed the flags, none of the earlier modes was selected
InitRun ==
  /\ Args \in RunArgvs
  /\ CustomMutator = FALSE
  /\ Flags = ParseFlags(Args, FALSE, FALSE).Flags
  /\ Inputs = ParseFlags(Args, FALSE, FALSE).Inputs
  /\ PrintedWarning = FALSE
  /\ argA = Len(Args)
  /\ fpc = "returned"
  /\ dpc = "run_individual"
  /\ DictionaryEmpty = TRUE
  /\ atExit = TRUE
  /\ modesRun = <<>>
  /\ exitKind = "none"
  /\ exitCode = 0
  /\ endedBy = "none"
  /\ rpc = "start"
  /\ Runs = 0
  /\ PathIdx = 0
  /\ Iter = 0
  /\ callbacks = <<>>
  /\ CorpusUnits = 0
  /\ SaveArtifacts = TRUE
  /\ IdleWorkers
  /\ IdleCleanse
  /\ IdleMinimize
  /\ IdleDict

\* mutant: Runs is Flags.runs as given
RunIndividualStartRunsAsGiven ==
  /\ dpc = "run_individual"
  /\ rpc = "start"
  /\ IF AllInputsAreFiles
     THEN /\ SaveArtifacts' = FALSE
          /\ Runs' = Flags["runs"]
          /\ PathIdx' = 0
          /\ rpc' = "path"
          /\ RunsMode("run_individual")
          /\ UNCHANGED <<dpc, exitKind, exitCode, endedBy>>
     ELSE /\ rpc' = "skipped"
          /\ Continues("fork")
          /\ UNCHANGED <<SaveArtifacts, Runs, PathIdx, modesRun>>
  /\ UNCHANGED <<Iter, callbacks, CorpusUnits>>
  /\ UNCHANGED <<argVars, workerVars, cleanseVars, minimizeVars, dictVars, DictionaryEmpty, atExit>>

\* lines 908-912: if (RunIndividualFiles) { Options.SaveArtifacts = false;
\* int Runs = std::max(1, Flags.runs); ... for (auto &Path : *Inputs)
RunIndividualStart ==
  /\ dpc = "run_individual"
  /\ rpc = "start"
  /\ IF AllInputsAreFiles
     THEN /\ SaveArtifacts' = FALSE
          /\ Runs' = IF 1 < Flags["runs"] THEN Flags["runs"] ELSE 1
          /\ PathIdx' = 0
          /\ rpc' = "path"
          /\ RunsMode("run_individual")
          /\ UNCHANGED <<dpc, exitKind, exitCode, endedBy>>
     ELSE /\ rpc' = "skipped"
          /\ Continues("fork")
          /\ UNCHANGED <<SaveArtifacts, Runs, PathIdx, modesRun>>
  /\ UNCHANGED <<Iter, callbacks, CorpusUnits>>
  /\ UNCHANGED <<argVars, workerVars, cleanseVars, minimizeVars, dictVars, DictionaryEmpty, atExit>>

\* lines 913-915: for (auto &Path : *Inputs) { ... Iter = 0
RunPath ==
  /\ rpc = "path"
  /\ IF PathIdx < Len(Inputs)
     THEN Iter' = 0 /\ rpc' = "iter"
     ELSE UNCHANGED Iter /\ rpc' = "stats"
  /\ UNCHANGED <<Runs, PathIdx, callbacks, CorpusUnits, SaveArtifacts>>
  /\ UNCHANGED <<argVars, workerVars, driverVars, cleanseVars, minimizeVars, dictVars>>

\* lines 916-917 and 335-347: for (Iter < Runs) RunOneTest(F, Path, MaxLen):
\* one ExecuteCallback on the file's bytes; the target may end the process.
RunIter ==
  /\ rpc = "iter"
  /\ IF Iter < Runs
     THEN /\ callbacks' = Append(callbacks, Inputs[PathIdx + 1])
          /\ \E targetDies \in BOOLEAN :
               IF targetDies
               THEN /\ rpc' = "died"
                    /\ Ends("exit", 1, "run_individual")
                    /\ UNCHANGED Iter
               ELSE /\ Iter' = Iter + 1
                    /\ UNCHANGED <<rpc, dpc, exitKind, exitCode, endedBy>>
          /\ UNCHANGED PathIdx
     ELSE /\ PathIdx' = PathIdx + 1
          /\ rpc' = "path"
          /\ UNCHANGED <<Iter, callbacks, dpc, exitKind, exitCode, endedBy>>
  /\ UNCHANGED <<Runs, CorpusUnits, SaveArtifacts>>
  /\ UNCHANGED <<argVars, workerVars, cleanseVars, minimizeVars, dictVars, DictionaryEmpty, atExit, modesRun>>

\* lines 922-927: Printf(...); F->PrintFinalStats(); exit(0);
RunExit ==
  /\ rpc = "stats"
  /\ rpc' = "exited"
  /\ Ends("exit", 0, "run_individual")
  /\ UNCHANGED <<Runs, PathIdx, Iter, callbacks, CorpusUnits, SaveArtifacts>>
  /\ UNCHANGED <<argVars, workerVars, cleanseVars, minimizeVars, dictVars, DictionaryEmpty, atExit, modesRun>>

\* lines 967-978: ReadCorpora(*Inputs, ...); F->Loop(CorporaFiles); exit(0);
\* the loop reads the seed inputs into the corpus and fuzzes
RunMainLoop ==
  /\ dpc = "loop"
  /\ RunsMode("loop")
  /\ CorpusUnits' = Len(Inputs)
  /\ \E targetDies \in BOOLEAN :
       IF targetDies THEN Ends("exit", 1, "loop") ELSE Ends("exit", 0, "loop")
  /\ UNCHANGED <<rpc, Runs, PathIdx, Iter, callbacks, SaveArtifacts>>
  /\ UNCHANGED <<argVars, workerVars, cleanseVars, minimizeVars, dictVars, DictionaryEmpty, atExit>>

NextRun ==
  \/ RunIndividualStart
  \/ RunPath
  \/ RunIter
  \/ RunExit
  \/ ModeFork
  \/ ModeMerge
  \/ ModeMergeInner
  \/ ModeAnalyzeDict
  \/ RunMainLoop

SpecRun == InitRun /\ [][NextRun]_vars

\* ------------------------------------------ AnalyzeDictionary (lines 559-623)
MaxDict == 2

\* dictionary units: the empty word, words that occur in some unit, once or
\* several times or overlapping, and a word that occurs in none
DictTokens == {<<>>, <<65>>, <<65, 66>>, <<66, 66>>, <<67>>}
AnalyzeDicts == SeqsUpTo(DictTokens, MaxDict)
AnalyzeCorpora ==
  { <<>>,
    << <<>> >>,
    << <<65>> >>,
    << <<65, 66, 65, 66>> >>,
    << <<>>, <<66, 65>> >>,
    << <<65, 66, 65>>, <<66, 66, 66>> >>,
    << <<65, 65, 65>>, <<65>> >> }

\* what TPC.CollectFeatures can report after one execution
FeatureVectors == {<<1>>, <<1, 2>>}

ArgAnalyzeDict ==
  <<"-", "a", "n", "a", "l", "y", "z", "e", "_", "d", "i", "c", "t", "=", "1">>
ArgDict == <<"-", "d", "i", "c", "t", "=", "d">>

\* std::search(first, last, tok.begin(), tok.end()) over positions from..end:
\* the first position where tok starts, Len(data) + 1 (end) when there is none;
\* an empty tok is found at first
Search(data, tok, from) ==
  LET cands == {p \in from..(Len(data) - Len(tok) + 1) :
                  SubSeq(data, p, p + Len(tok) - 1) = tok}
  IN IF cands = {} THEN Len(data) + 1
     ELSE CHOOSE p \in cands : \A q \in cands : p <= q

\* *It ^= 0xFF
XorFF(b) == 255 - b

\* lines 587-595: while (StartPos != Data.end()) { mask StartPos..EndPos;
\* StartPos = std::search(EndPos, ...); }   for a non-empty tok
RECURSIVE MaskAll(_, _, _)
MaskAll(data, tok, StartPos) ==
  IF StartPos = Len(data) + 1 THEN data
  ELSE LET EndPos == StartPos + Len(tok)
           masked == [k \in 1..Len(data) |->
                        IF StartPos <= k /\ k < EndPos THEN XorFF(data[k]) ELSE data[k]]
       IN MaskAll(masked, tok, Search(masked, tok, EndPos))

\* FuzzerDriver has parsed the dictionary and read the corpus, and calls
\* AnalyzeDictionary(F, Dictionary, InitialCorpus)
InitDict ==
  /\ Args = <<ProgName, ArgAnalyzeDict, ArgDict, <<"d">> >>
  /\ CustomMutator = FALSE
  /\ Flags = ParseFlags(Args, FALSE, FALSE).Flags
  /\ Inputs = ParseFlags(Args, FALSE, FALSE).Inputs
  /\ PrintedWarning = FALSE
  /\ argA = Len(Args)
  /\ fpc = "returned"
  /\ dpc = "in_analyze_dict"
  /\ DictionaryEmpty = FALSE
  /\ atExit = TRUE
  /\ modesRun = <<"analyze_dict">>
  /\ exitKind = "none"
  /\ exitCode = 0
  /\ endedBy = "none"
  /\ apc = "start"
  /\ Dict \in AnalyzeDicts
  /\ Corpus \in AnalyzeCorpora
  /\ Scores = <<>>
  /\ Usages = <<>>
  /\ cIdx = 0
  /\ dIdx = 0
  /\ InitialFeatures = <<>>
  /\ executions = <<>>
  /\ reported = <<>>
  /\ IdleWorkers
  /\ IdleCleanse
  /\ IdleMinimize
  /\ IdleRun

\* lines 565-566: std::vector<int> Scores(Dict.size()), Usages(Dict.size());
AnalyzeStart ==
  /\ apc = "start"
  /\ Scores' = [i \in 1..Len(Dict) |-> 0]
  /\ Usages' = [i \in 1..Len(Dict) |-> 0]
  /\ cIdx' = 0
  /\ apc' = "unit"
  /\ UNCHANGED <<Dict, Corpus, dIdx, InitialFeatures, executions>>
  /\ UNCHANGED <<argVars, workerVars, driverVars, cleanseVars, minimizeVars, runVars, reported>>

\* lines 570-576: for (auto &C : Corpus) { F->ExecuteCallback(C); collect
\* InitialFeatures; for (i = 0; ...
AnalyzeUnit ==
  /\ apc = "unit"
  /\ IF cIdx < Len(Corpus)
     THEN /\ InitialFeatures' \in FeatureVectors
          /\ executions' = Append(executions,
                [Unit |-> cIdx + 1, Token |-> 0, Data |-> Corpus[cIdx + 1],
                 Features |-> InitialFeatures'])
          /\ dIdx' = 0
          /\ apc' = "token"
     ELSE /\ apc' = "report"
          /\ UNCHANGED <<executions, InitialFeatures, dIdx>>
  /\ UNCHANGED <<Dict, Corpus, Scores, Usages, cIdx>>
  /\ UNCHANGED <<argVars, workerVars, driverVars, cleanseVars, minimizeVars, runVars, reported>>

\* mutant: a dictionary unit the testcase does not contain is not skipped
AnalyzeTokenNoSkip ==
  /\ apc = "token"
  /\ IF dIdx < Len(Dict)
     THEN LET i == dIdx + 1
              C == Corpus[cIdx + 1]
              StartPos == Search(C, Dict[i], 1)
          IN IF Dict[i] = <<>> /\ StartPos # Len(C) + 1
             THEN /\ Usages' = [Usages EXCEPT ![i] = @ + 1]
                  /\ apc' = "masking"
                  /\ UNCHANGED <<Scores, executions, dIdx, cIdx>>
             ELSE /\ Usages' = [Usages EXCEPT ![i] = @ + 1]
                  /\ \E ModifiedFeatures \in FeatureVectors :
                       /\ executions' = Append(executions,
                             [Unit |-> cIdx + 1, Token |-> i,
                              Data |-> MaskAll(C, Dict[i], StartPos),
                              Features |-> ModifiedFeatures])
                       /\ Scores' = [Scores EXCEPT ![i] =
                                       IF InitialFeatures = ModifiedFeatures
                                       THEN @ - 1 ELSE @ + 2]
                  /\ dIdx' = dIdx + 1
                  /\ UNCHANGED <<apc, cIdx>>
     ELSE /\ cIdx' = cIdx + 1
          /\ apc' = "unit"
          /\ UNCHANGED <<Scores, Usages, executions, dIdx>>
  /\ UNCHANGED <<Dict, Corpus, InitialFeatures>>
  /\ UNCHANGED <<argVars, workerVars, driverVars, cleanseVars, minimizeVars, runVars, reported>>

\* lines 578-607, one dictionary unit on the current testcase: skip it if the
\* testcase does not contain it; else ++Usages[i], mask every occurrence,
\* execute the masked data, --Scores[i] if the features are those of the
\* unmodified testcase, Scores[i] += 2 if not. With an empty unit and a
\* non-empty testcase the masking loop never advances.
AnalyzeToken ==
  /\ apc = "token"
  /\ IF dIdx < Len(Dict)
     THEN LET i == dIdx + 1
              C == Corpus[cIdx + 1]
              StartPos == Search(C, Dict[i], 1)
          IN IF StartPos = Len(C) + 1
             THEN /\ dIdx' = dIdx + 1
                  /\ UNCHANGED <<Scores, Usages, executions, apc, cIdx>>
             ELSE IF Dict[i] = <<>>
             THEN /\ Usages' = [Usages EXCEPT ![i] = @ + 1]
                  /\ apc' = "masking"
                  /\ UNCHANGED <<Scores, executions, dIdx, cIdx>>
             ELSE /\ Usages' = [Usages EXCEPT ![i] = @ + 1]
                  /\ \E ModifiedFeatures \in FeatureVectors :
                       /\ executions' = Append(executions,
                             [Unit |-> cIdx + 1, Token |-> i,
                              Data |-> MaskAll(C, Dict[i], StartPos),
                              Features |-> ModifiedFeatures])
                       /\ Scores' = [Scores EXCEPT ![i] =
                                       IF InitialFeatures = ModifiedFeatures
                                       THEN @ - 1 ELSE @ + 2]
                  /\ dIdx' = dIdx + 1
                  /\ UNCHANGED <<apc, cIdx>>
     ELSE /\ cIdx' = cIdx + 1
          /\ apc' = "unit"
          /\ UNCHANGED <<Scores, Usages, executions, dIdx>>
  /\ UNCHANGED <<Dict, Corpus, InitialFeatures>>
  /\ UNCHANGED <<argVars, workerVars, driverVars, cleanseVars, minimizeVars, runVars, reported>>

\* mutant: a unit whose score is zero is not printed
AnalyzeReportSkipsZero ==
  /\ apc = "report"
  /\ reported' = SelectSeq([i \in 1..Len(Dict) |-> i], LAMBDA i : ~(Scores[i] >= 0))
  /\ apc' = "returned"
  /\ Ends("exit", 0, "analyze_dict")
  /\ UNCHANGED <<Dict, Corpus, Scores, Usages, cIdx, dIdx, InitialFeatures, executions>>
  /\ UNCHANGED <<argVars, workerVars, cleanseVars, minimizeVars, runVars, DictionaryEmpty, atExit, modesRun>>

\* lines 610-622 and 959-964: the report prints every unit but those with
\* Scores[i] > 0; return 0; FuzzerDriver prints "Dictionary analysis
\* succeeded" and calls exit(0)
AnalyzeReport ==
  /\ apc = "report"
  /\ reported' = SelectSeq([i \in 1..Len(Dict) |-> i], LAMBDA i : ~(Scores[i] > 0))
  /\ apc' = "returned"
  /\ Ends("exit", 0, "analyze_dict")
  /\ UNCHANGED <<Dict, Corpus, Scores, Usages, cIdx, dIdx, InitialFeatures, executions>>
  /\ UNCHANGED <<argVars, workerVars, cleanseVars, minimizeVars, runVars, DictionaryEmpty, atExit, modesRun>>

NextDict ==
  \/ AnalyzeStart
  \/ AnalyzeUnit
  \/ AnalyzeToken
  \/ AnalyzeReport

SpecDict == InitDict /\ [][NextDict]_vars

\* dictionaries of one unit, and one of two units with the empty unit last
LiveDicts == {<<t>> : t \in DictTokens} \cup {<< <<65>>, <<>> >>}

InitDictLive ==
  /\ Args = <<ProgName, ArgAnalyzeDict, ArgDict, <<"d">> >>
  /\ CustomMutator = FALSE
  /\ Flags = ParseFlags(Args, FALSE, FALSE).Flags
  /\ Inputs = ParseFlags(Args, FALSE, FALSE).Inputs
  /\ PrintedWarning = FALSE
  /\ argA = Len(Args)
  /\ fpc = "returned"
  /\ dpc = "in_analyze_dict"
  /\ DictionaryEmpty = FALSE
  /\ atExit = TRUE
  /\ modesRun = <<"analyze_dict">>
  /\ exitKind = "none"
  /\ exitCode = 0
  /\ endedBy = "none"
  /\ apc = "start"
  /\ Dict \in LiveDicts
  /\ Corpus \in AnalyzeCorpora
  /\ Scores = <<>>
  /\ Usages = <<>>
  /\ cIdx = 0
  /\ dIdx = 0
  /\ InitialFeatures = <<>>
  /\ executions = <<>>
  /\ reported = <<>>
  /\ IdleWorkers
  /\ IdleCleanse
  /\ IdleMinimize
  /\ IdleRun

\* the function is sequential and every call of the target returns: a step
\* that can be taken is taken
LiveSpecDict == InitDictLive /\ [][NextDict]_vars /\ WF_vars(NextDict)

\* -------------------------------------------- MyStol applied by the parser
MaxStolLen == 3

\* the values given to an int flag: strings of '-', digits and a non-digit
StolStrings == SeqsUpTo({"-", "1", "2", "x"}, MaxStolLen)
ArgRunsEq == <<"-", "r", "u", "n", "s", "=">>

\* argv is the program and -runs=<Str>; ParseOneFlag stores MyStol(Str)
InitStol ==
  /\ Args \in {<<ProgName, ArgRunsEq \o s>> : s \in StolStrings}
  /\ CustomMutator = FALSE
  /\ Flags = ZeroFlags
  /\ Inputs = <<>>
  /\ PrintedWarning = FALSE
  /\ argA = 0
  /\ fpc = "start"
  /\ IdleWorkers
  /\ IdleDriver
  /\ IdleCleanse
  /\ IdleModes

SpecStol == InitStol /\ [][NextParse]_vars

\* --------------------------- the command line MinimizeCrashInput hands down
\* argv with -runs and -max_total_time absent or given, zero, positive or
\* negative, and one input
ArgMaxTotalTime(k) ==
  <<"-", "m", "a", "x", "_", "t", "o", "t", "a", "l", "_", "t", "i", "m", "e", "=", Digits[k + 1]>>
MinimizeCmdArgvs ==
  {<<ProgName, ArgMinimizeCrash>> \o timing \o << <<"a">> >> :
     timing \in {<<>>,
                 <<RunsArg(0)>>, <<RunsArg(2)>>, <<ArgRunsEq \o <<"-", "7">> >>,
                 <<ArgMaxTotalTime(0)>>, <<ArgMaxTotalTime(5)>>,
                 <<RunsArg(0), ArgMaxTotalTime(0)>>,
                 <<RunsArg(0), ArgMaxTotalTime(5)>>,
                 <<RunsArg(2), ArgMaxTotalTime(0)>>}}

InitMinimizeCmd ==
  /\ Args \in MinimizeCmdArgvs
  /\ CustomMutator = FALSE
  /\ Flags = ParseFlags(Args, FALSE, FALSE).Flags
  /\ Inputs = ParseFlags(Args, FALSE, FALSE).Inputs
  /\ PrintedWarning = FALSE
  /\ argA = Len(Args)
  /\ fpc = "returned"
  /\ dpc = "in_minimize_crash"
  /\ DictionaryEmpty = TRUE
  /\ atExit = TRUE
  /\ modesRun = <<"minimize_crash">>
  /\ exitKind = "none"
  /\ exitCode = 0
  /\ endedBy = "none"
  /\ npc = "validate"
  /\ BaseCmd = NoCommand
  /\ CurrentFilePath = [Kind |-> "none", Of |-> <<>>]
  /\ MinU = <<>>
  /\ DedupToken1 = <<>>
  /\ \E u \in {x \in Units : Len(x) = 2} :
       MinFiles = [In |-> FileOf(u), Out |-> nofile, Auto |-> [x \in Units |-> nofile]]
  /\ minLog = [Plain |-> <<>>, Inner |-> <<>>, Reduced |-> FALSE, Adopted |-> FALSE,
              Iterations |-> 0]
  /\ IdleWorkers
  /\ IdleCleanse
  /\ IdleRun
  /\ IdleDict

SpecMinimizeCmd == InitMinimizeCmd /\ [][NextMinimize]_vars
\* ------------------------------------------------- worker pool: claims C1-C4
\* The number of subprocesses that were run for job id.
TimesExecuted(id) ==
  BagCardinality([e \in {x \in BagToSet(executed) : x[1] = id} |-> executed[e]])

ExecutedIds == {e[1] : e \in BagToSet(executed)}
HoldsJob(w) == wpc[w] \in {"cmdline", "exec", "lock", "footer", "copylog"}
AllJobsCompleted == \A id \in 0..(NumJobs - 1) : TimesExecuted(id) >= 1

\* C1: under every interleaving the job ids for which a subprocess is run are
\* below NumJobs and each is run once, no two workers hold the same id at the
\* same time, and when RunInMultipleProcesses returns the ids that were run
\* are exactly 0..NumJobs-1.
C1_JobIdsExactlyOnce ==
  /\ \A id \in ExecutedIds : id \in 0..(NumJobs - 1) /\ TimesExecuted(id) = 1
  /\ \A w1 \in Workers : \A w2 \in Workers :
       (w1 # w2 /\ HoldsJob(w1) /\ HoldsJob(w2)) => wC[w1] # wC[w2]
  /\ \A w \in Workers : HoldsJob(w) => wC[w] < NumJobs
  /\ mpc = "returned" => ExecutedIds = 0..(NumJobs - 1)

\* C1 witness: a pool of several workers has returned after the full set of jobs.
C1_Witness ==
  /\ mpc = "returned"
  /\ NumWorkers = MaxWorkers
  /\ NumJobs = MaxJobs
  /\ Counter = NumJobs + NumWorkers

\* C2: the error flag is set exactly when some subprocess run so far returned
\* non-zero (so it is never cleared), and RunInMultipleProcesses returns 1 if
\* some job returned non-zero and 0 if all of them returned 0.
C2_ReturnReflectsFailures ==
  /\ HasErrors <=> (\E e \in BagToSet(executed) : e[2] # 0)
  /\ mpc = "returned" =>
       ret = IF \E e \in BagToSet(executed) : e[2] # 0 THEN 1 ELSE 0

\* C2 witness: the pool returned 1 although some job succeeded.
C2_Witness ==
  /\ mpc = "returned"
  /\ ret = 1
  /\ \E e \in BagToSet(executed) : e[2] = 0
  /\ \E e \in BagToSet(executed) : e[2] # 0

\* C3: with fair scheduling and terminating subprocesses every job id below
\* NumJobs is eventually run to completion, every worker eventually leaves its
\* loop, RunInMultipleProcesses eventually returns, and it returns only after
\* all NumJobs jobs have completed, whatever their exit codes.
C3_AllJobsRunToCompletion ==
  /\ <>(mpc = "returned")
  /\ [](mpc = "returned" =>
          AllJobsCompleted /\ \A w \in 1..NumWorkers : wpc[w] = "done")

\* C3 witness: the first job failed and the pool still ran every job and returned.
C3_Witness ==
  /\ mpc = "returned"
  /\ NumJobs = MaxJobs
  /\ BagIn(<<0, 1>>, executed)
  /\ AllJobsCompleted

\* C4: a worker is at its footer or log dump only while it holds Mu and the
\* pulse thread prints only while it holds Mu; on standard error a footer is
\* followed by the log of the same job, never by another footer, another job's
\* log or a pulse line.
C4_FooterAndLogAtomic ==
  /\ \A w \in Workers : wpc[w] \in {"footer", "copylog"} => Mu = WorkerOwner(w)
  /\ ppc = "print" => Mu = PulseOwner
  /\ stderr[1][1] = "footer" => stderr[2] = <<"log", stderr[1][2], 0>>
  /\ stderr[2][1] = "log" =>
       stderr[1][1] = "footer" /\ stderr[1][2] = stderr[2][2]

\* C4 witness: one job's footer and log are on standard error while another
\* worker and the pulse thread are waiting to print.
C4_Witness ==
  /\ stderr[1][1] = "footer"
  /\ stderr[2][1] = "log"
  /\ \E w \in Workers : wpc[w] = "lock"
  /\ ppc = "print"


\* ------------------------------------------------ mode dispatcher: claims C5-C7
\* the terminal modes the specification lists
TerminalModes ==
  {"help", "workers", "minimize_crash", "minimize_crash_internal_step",
   "cleanse_crash", "run_individual", "fork", "merge", "merge_inner",
   "analyze_dict", "loop"}

\* the statements that end a call because an argument was rejected
ValidationErrors ==
  {"argv0", "stoul", "corpus_dir", "artifact_prefix", "exact_artifact_path",
   "dict", "features_dir"}

\* the condition of the data-flow collection at lines 850-851
CollectsDataFlow ==
  /\ Flags["collect_data_flow"] # nullptr
  /\ Flags["data_flow_trace"] # nullptr
  /\ Flags["fork"] = 0
  /\ ~(Flags["merge"] # 0 \/ Flags["set_cover_merge"] # 0)

\* the cascade from minimize_crash on; forkCond is its test of Flags.fork
CascadeFrom(forkCond) ==
  IF Flags["minimize_crash"] # 0 THEN "minimize_crash"
  ELSE IF Flags["minimize_crash_internal_step"] # 0 THEN "minimize_crash_internal_step"
  ELSE IF Flags["cleanse_crash"] # 0 THEN "cleanse_crash"
  ELSE IF AllInputsAreFiles THEN "run_individual"
  ELSE IF forkCond THEN "fork"
  ELSE IF Flags["merge"] # 0 \/ Flags["set_cover_merge"] # 0 THEN "merge"
  ELSE IF Flags["merge_inner"] # nullptr THEN "merge_inner"
  ELSE IF Flags["analyze_dict"] # 0 THEN "analyze_dict"
  ELSE "loop"

\* the whole priority order, on the flags as the dispatcher tests them
Selected(forkCond) ==
  IF Flags["help"] # 0 THEN "help"
  ELSE IF Flags["workers"] # 0 /\ Flags["jobs"] # 0 THEN "workers"
  ELSE CascadeFrom(forkCond)

Parsed == dpc = "done" /\ endedBy \notin {"argv0", "stoul"}

\* C5, as stated: a call that does not reject its arguments executes exactly
\* one terminal mode.
C5_ExactlyOneTerminalMode ==
  (dpc = "done" /\ endedBy \notin ValidationErrors) => Len(modesRun) = 1

\* C5, amended: no call of FuzzerDriver executes two terminal modes, every
\* mode it executes is one of the listed ones, and a finished call has
\* executed exactly one unless it ended on a rejected argument or in the
\* data-flow collection, in which case it has executed none.
C5_AtMostOneTerminalMode ==
  /\ Len(modesRun) <= 1
  /\ \A i \in 1..Len(modesRun) : modesRun[i] \in TerminalModes
  /\ dpc = "done" =>
       (Len(modesRun) = 0 <=> endedBy \in ValidationErrors \cup {"collect_data_flow"})

C5_Witness ==
  /\ dpc = "done"
  /\ endedBy = "collect_data_flow"
  /\ modesRun = <<>>
  /\ Flags["cleanse_crash"] # 0

\* C6, as stated: every terminal mode that runs after the at-exit callback
\* was registered ends the process and does not return to the caller.
C6_TerminalModesExit ==
  (dpc = "done" /\ atExit /\ modesRun # <<>>) => exitKind # "return"

\* C6, amended: help and the worker pool return to the caller; the internal
\* minimization step, the individual runs, merge, merge-inner and the main
\* loop end the process; minimize-crash returns 0 when its loop ends and exits
\* with 1 otherwise; cleanse-crash returns 0 unless its arguments are rejected
\* (exit 1); analyze-dict returns 1 without a dictionary or inputs and
\* exits otherwise.
C6_WhichModesExit ==
  (dpc = "done" /\ modesRun # <<>>) =>
    LET m == modesRun[1] IN
    /\ m \in {"help", "workers"} => exitKind = "return" /\ ~atExit
    /\ m \in {"minimize_crash_internal_step", "run_individual", "merge",
              "merge_inner", "loop"} => exitKind \in {"exit", "abort"} /\ atExit
    /\ m = "minimize_crash" =>
         /\ atExit
         /\ \/ exitKind = "return" /\ exitCode = 0 /\ Len(Inputs) = 1
            \/ exitKind = "exit" /\ exitCode = 1
    /\ m = "cleanse_crash" =>
         /\ atExit
         /\ IF Len(Inputs) = 1 /\ Flags["exact_artifact_path"] # nullptr
            THEN exitKind = "return" /\ exitCode = 0
            ELSE exitKind = "exit" /\ exitCode = 1
    /\ m = "analyze_dict" =>
         /\ atExit
         /\ IF DictionaryEmpty \/ Inputs = <<>>
            THEN exitKind = "return" /\ exitCode = 1
            ELSE exitKind = "exit"

C6_Witness ==
  /\ dpc = "done"
  /\ atExit
  /\ modesRun = <<"minimize_crash">>
  /\ exitKind = "return"
  /\ exitCode = 0

\* C7, as stated: unless an argument is rejected, the mode that runs is the
\* first of help, worker pool, minimize_crash, minimize_crash_internal_step,
\* cleanse_crash, run-individual, fork>0, merge, merge_inner, analyze_dict,
\* main loop whose condition holds.
C7_ListedPriorityOrder ==
  (dpc = "done" /\ endedBy \notin ValidationErrors) =>
    modesRun = <<Selected(Flags["fork"] > 0)>>

\* C7, amended: help and then the worker pool are selected first and nothing
\* pre-empts them; after them a rejected directory or dictionary ends the
\* call, then the data-flow collection (collect_data_flow and data_flow_trace
\* set, fork zero, no merge) ends it before any later mode; otherwise the
\* first mode whose condition holds runs, in the listed order, with fork
\* selected by any non-zero value.
C7_PriorityOrder ==
  /\ modesRun # <<>> => modesRun[1] = Selected(Flags["fork"] # 0)
  /\ Parsed =>
       IF Selected(Flags["fork"] # 0) \in {"help", "workers"}
       THEN modesRun # <<>>
       ELSE IF endedBy \in ValidationErrors THEN modesRun = <<>>
       ELSE IF CollectsDataFlow
       THEN modesRun = <<>> /\ endedBy = "collect_data_flow"
       ELSE modesRun # <<>>

C7_Witness ==
  /\ dpc = "done"
  /\ endedBy = "collect_data_flow"
  /\ Flags["minimize_crash"] # 0
  /\ Flags["help"] = 0

\* ---------------------------------------------- CleanseCrashInput: claims C8-C9
\* the buffer the search has committed to: the artifact once one was written,
\* the original input before
Committed == IF OutputFile = nofile THEN InputData ELSE OutputFile[1]
Searching == cpc \in {"attempt", "index", "replace", "execute", "return"}

\* C8: every step of the search either leaves the committed buffer as it was
\* (a replacement whose run returned zero is reverted in U and not written to
\* the artifact path) or commits the buffer that the last run of the command
\* was given and answered with a non-zero exit code; between trials U is the
\* committed buffer.
C8_KeptOnlyIfStillCrashing ==
  [][/\ (Searching /\ OutputFile' # OutputFile) =>
          /\ lastRun'.Code # 0
          /\ lastRun'.Data = OutputFile'[1]
          /\ U' = OutputFile'[1]
     /\ (cpc = "execute" /\ lastRun'.Code = 0) =>
          /\ OutputFile' = OutputFile
          /\ U' = Committed
     /\ (Searching /\ cpc' # "execute") => U' = Committed']_vars

C8_Witness ==
  /\ cpc = "replace"
  /\ lastRun.Code = 0
  /\ OutputFile # nofile
  /\ U = OutputFile[1]
  /\ U # InputData

Cleansed(buf) ==
  /\ Len(buf) = Len(InputData)
  /\ \A i \in 1..Len(buf) : buf[i] = InputData[i] \/ buf[i] \in {32, 255}

\* C9: once loaded, the buffer U, and every content of the artifact path, has
\* the length of the original input and each of its bytes is the original
\* byte at that index or one of 0x20 and 0xFF.
C9_LengthAndBytesPreserved ==
  /\ Searching \/ (cpc = "done" /\ exitKind = "return") => Cleansed(U)
  /\ OutputFile # nofile => Cleansed(OutputFile[1])

C9_Witness ==
  /\ cpc = "done"
  /\ OutputFile = FileOf(U)
  /\ \E i \in 1..Len(U) : U[i] # InputData[i]
  /\ \E i \in 1..Len(U) : U[i] = InputData[i] /\ U[i] \notin {32, 255}

\* ------------------------------------------------------- ParseFlags: claim C10
StartsWithDash(s) == CharAt(s, 0) = "-"
\* the arguments the loop of ParseFlags has been through
Consumed == SubSeq(Args, 2, IF argA < Len(Args) THEN argA + 1 ELSE Len(Args))
NotDash(s) == ~StartsWithDash(s)

\* C10: Inputs never holds a string whose first character is '-', and when
\* ParseFlags has returned Inputs is exactly the arguments it went through
\* that do not begin with '-', in their order.
C10_NoDashInInputs ==
  /\ \A i \in 1..Len(Inputs) : ~StartsWithDash(Inputs[i])
  /\ fpc = "returned" => Inputs = SelectSeq(Consumed, NotDash)

C10_Witness ==
  /\ fpc = "returned"
  /\ Len(Inputs) = 1
  /\ \E i \in 2..Len(Args) : MatchingFlag(Args[i]) # 0
  /\ \E i \in 2..Len(Args) : StartsWithDash(Args[i]) /\ MatchingFlag(Args[i]) = 0
                             /\ CharAt(Args[i], 1) # "-"

\* --------------------------------------------------- ParseFlags: claims C11-C13
ParseReturned == fpc = "returned"
\* the row of FlagDescriptions behind a field of struct Flags
RowOf(f) == FlagDescriptions[CHOOSE F \in 1..kNumFlags : FlagDescriptions[F].Field = f]
\* the value FuzzerFlags.def declares for a field
DeclaredDefault(f) == IF RowOf(f).Kind = "str" THEN nullptr ELSE RowOf(f).Default
\* some argument has the form -name=<v> for the flag behind f
InArgv(f) == \E i \in 2..Len(Args) : FlagValue(Args[i], RowOf(f).Name) # nullptr

\* C11, as stated: after ParseFlags returns every flag equals its declared
\* default or appears in argv as -name=<v>, with or without
\* LLVMFuzzerCustomMutator.
C11_DefaultOrInArgv ==
  ParseReturned => \A f \in FlagFields : Flags[f] = DeclaredDefault(f) \/ InArgv(f)

\* C11, amended: after ParseFlags returns every flag other than len_control
\* equals its declared default or appears in argv as -name=<v>; len_control
\* does so when LLVMFuzzerCustomMutator is absent, and when it is present
\* len_control is 0 unless it appears in argv.
C11_DefaultOrInArgvButLenControl ==
  ParseReturned =>
    \A f \in FlagFields :
      \/ InArgv(f)
      \/ Flags[f] = IF f = "len_control" /\ CustomMutator THEN 0 ELSE DeclaredDefault(f)

C11_Witness ==
  /\ ParseReturned
  /\ CustomMutator
  /\ ~InArgv("len_control")
  /\ Flags["len_control"] = 0
  /\ InArgv("runs")
  /\ Flags["runs"] = -7
  /\ Flags["verbosity"] = 1

IgnoreRemainingArgs == Flags["ignore_remaining_args"] # 0

\* C12: the step of ParseFlags that leaves ignore_remaining_args non-zero
\* after a token beginning with '-' ends the loop with Inputs as it was, and
\* from then on no step changes a flag field or Inputs.
C12_NothingAfterIgnoreRemainingArgs ==
  [][/\ (fpc \in {"loop", "returned"} /\ IgnoreRemainingArgs) =>
          (Flags' = Flags /\ Inputs' = Inputs /\ argA' = argA /\ fpc' = "returned")
     /\ (fpc = "loop" /\ Flags'["ignore_remaining_args"] # 0) =>
          (fpc' = "returned" /\ Inputs' = Inputs)]_vars

C12_Witness ==
  /\ ParseReturned
  /\ IgnoreRemainingArgs
  /\ argA + 1 < Len(Args)
  /\ Len(Inputs) = 1
  /\ Inputs[1] = Args[2]
  /\ ~StartsWithDash(Args[Len(Args)])

\* the flags left by ParseOneFlag on each of the tokens in turn
RECURSIVE StoreAll(_, _)
StoreAll(tokens, flags) ==
  IF tokens = <<>> THEN flags
  ELSE StoreAll(Tail(tokens),
                ParseOneFlag(Head(tokens), [Flags |-> flags, PrintedWarning |-> FALSE]).Flags)

\* the position in Args of the first positional argument, past the end if none
FirstPositional ==
  LET pos == {i \in 2..Len(Args) : ~StartsWithDash(Args[i])}
  IN IF pos = {} THEN Len(Args) + 1 ELSE CHOOSE i \in pos : \A j \in pos : i <= j

\* the position in Args of the first token that sets ignore_remaining_args
\* to a non-zero value, past the end if none
FirstIgnoreToken ==
  LET ign == {i \in 2..Len(Args) :
                /\ FlagValue(Args[i], RowOf("ignore_remaining_args").Name) # nullptr
                /\ MyStol(FlagValue(Args[i], RowOf("ignore_remaining_args").Name)[1]) # 0}
  IN IF ign = {} THEN Len(Args) + 1 ELSE CHOOSE i \in ign : \A j \in ign : i <= j

\* C13, as stated: with ignore_remaining_args set, the flag tokens before the
\* first positional argument are all parsed into Flags, and the first
\* positional argument and what follows it are not processed.
C13_TruncatedAtFirstPositional ==
  (ParseReturned /\ IgnoreRemainingArgs) =>
    /\ Flags = StoreAll(SubSeq(Args, 2, FirstPositional - 1), DefaultFlags(CustomMutator))
    /\ Inputs = <<>>

\* C13, amended: with ignore_remaining_args set, parsing is truncated right
\* after the token that sets it: the tokens up to and including it are
\* processed (flags stored, positional arguments collected as inputs), and no
\* token after it is, flag or positional.
C13_TruncatedAfterIgnoreToken ==
  (ParseReturned /\ IgnoreRemainingArgs) =>
    /\ argA + 1 = FirstIgnoreToken
    /\ Flags = StoreAll(SubSeq(Args, 2, FirstIgnoreToken), DefaultFlags(CustomMutator))
    /\ Inputs = SelectSeq(SubSeq(Args, 2, FirstIgnoreToken), NotDash)

C13_Witness ==
  /\ ParseReturned
  /\ IgnoreRemainingArgs
  /\ Len(Inputs) = 1
  /\ Len(Args) = 4
  /\ FirstIgnoreToken = 3
  /\ MatchingFlag(Args[4]) # 0
  /\ Flags["help"] = 0
  /\ FlagValue(Args[4], RowOf("help").Name) # nullptr

\* ---------------------------------------- MinimizeCrashInput: claims C14-C16
LastPlain == minLog.Plain[1]
LastInner == minLog.Inner[1]
ExactArtifactPathSet == Flags["exact_artifact_path"] # nullptr

\* C14: the step that runs the inner minimization stops the loop when the
\* inner step exits 0, stops it when the inner step fails and DedupToken2
\* differs from DedupToken1, and otherwise (equal tokens, both empty included)
\* goes on with the artifact the inner step produced as the current input.
C14_LoopStopsOrAdoptsArtifact ==
  [][npc = "inner" =>
       IF minLog'.Inner[1].Code = 0 THEN npc' = "return"
       ELSE IF minLog'.Inner[1].Token # DedupToken1 THEN npc' = "return"
       ELSE /\ npc' = "read"
            /\ CurrentFilePath' = ArtifactPath
            /\ ReadFile(MinFiles', CurrentFilePath') = minLog'.Inner[1].Wrote]_vars

C14_Witness ==
  /\ npc = "read"
  /\ minLog.Adopted
  /\ LastInner.Code # 0
  /\ LastInner.Token = <<>>
  /\ DedupToken1 = <<>>
  /\ ReadFile(MinFiles, CurrentFilePath) = LastInner.Wrote

\* C15: in any iteration, a plain run of the current input that exits 0 ends
\* the process with status 1 in that step, no file is written and no inner
\* step is run for that input; the inner step is run only on an input whose
\* plain run has just exited non-zero.
C15_NoCrashEndsWithOne ==
  [][/\ (npc = "plain" /\ minLog'.Plain[1].Code = 0) =>
          /\ npc' = "done"
          /\ exitKind' = "exit"
          /\ exitCode' = 1
          /\ MinFiles' = MinFiles
          /\ minLog'.Inner = minLog.Inner
     /\ npc = "inner" => (LastPlain.Input = MinU /\ LastPlain.Code # 0)]_vars

C15_Witness ==
  /\ npc = "done"
  /\ exitKind = "exit"
  /\ exitCode = 1
  /\ minLog.Adopted
  /\ LastPlain.Code = 0
  /\ LastInner.Input # LastPlain.Input
  /\ LastInner.Wrote = <<LastPlain.Input>>

\* what C16 promises of the file at the exact artifact path
ArtifactReducedAndCrashing ==
  /\ MinFiles.Out # nofile
  /\ Len(MinFiles.Out[1]) < Len(MinFiles.In[1])
  /\ LastPlain.Input = MinFiles.Out[1]
  /\ LastPlain.Code # 0

ReturnedWithExactPath ==
  npc = "done" /\ exitKind = "return" /\ exitCode = 0 /\ ExactArtifactPathSet

\* C16, as stated: with exact_artifact_path set, when some inner step reduced
\* the input (it exited non-zero, having written a smaller unit), on return
\* the file at the path exists, is smaller than the original input and holds
\* the input of the last plain run, which exited non-zero.
C16_ArtifactAfterAnyReduction ==
  (ReturnedWithExactPath /\ minLog.Reduced) => ArtifactReducedAndCrashing

\* C16, amended: with exact_artifact_path set, when some reduction of the
\* inner step was adopted as the current input (the inner step exited
\* non-zero with a dedup token equal to that of the plain run), on return the
\* file at the path exists, is smaller than the original input and holds the
\* input of the last plain run, which exited non-zero; this holds on both
\* stopping paths.
C16_ArtifactAfterAdoptedReduction ==
  (ReturnedWithExactPath /\ minLog.Adopted) => ArtifactReducedAndCrashing

C16_Witness ==
  /\ ReturnedWithExactPath
  /\ minLog.Adopted
  /\ LastInner.Code # 0
  /\ LastInner.Token # DedupToken1
  /\ ArtifactReducedAndCrashing
  /\ LastInner.Wrote # MinFiles.Out

\* ------------------------------------------------- crash modes: claim C19
NoAutoArtifact == \A u \in DOMAIN MinFiles.Auto : MinFiles.Auto[u] = nofile

\* C19: minimize_crash with a number of inputs other than one, and
\* cleanse_crash with a number of inputs other than one or without
\* -exact_artifact_path, never run a subprocess and never write a temporary
\* file or an artifact, and end the process with status 1.
C19_RejectedBeforeSideEffects ==
  /\ (cpc # "idle" /\ (Len(Inputs) # 1 \/ ~ExactArtifactPathSet)) =>
       /\ cpc \in {"validate", "done"}
       /\ lastRun.Code = -1
       /\ TmpFile = nofile
       /\ OutputFile = nofile
       /\ cpc = "done" => (exitKind = "exit" /\ exitCode = 1)
  /\ (npc # "idle" /\ Len(Inputs) # 1) =>
       /\ npc \in {"validate", "done"}
       /\ minLog.Plain = <<>>
       /\ minLog.Inner = <<>>
       /\ MinFiles.Out = nofile
       /\ NoAutoArtifact
       /\ npc = "done" => (exitKind = "exit" /\ exitCode = 1)

C19_Witness ==
  /\ cpc = "done"
  /\ Len(Inputs) = 1
  /\ ~ExactArtifactPathSet
  /\ exitKind = "exit"
  /\ exitCode = 1
  /\ lastRun.Code = -1

\* ------------------------------------------------ CleanseCrashInput: claim C20
\* C20, as stated, seen from the end of a call: every byte differs from at
\* least one of the two replacement bytes, so a cleansing that returns on a
\* non-empty input has run the command on at least one candidate.
C20_EveryByteHasACandidate ==
  (cpc = "done" /\ exitKind = "return" /\ Size > 0) => lastRun.Code # -1

\* C20, amended: a byte that already equals 0x20 or 0xFF is skipped altogether,
\* no candidate is tried at its index; at any other index 0x20 is tried
\* first and 0xFF second, each on the committed buffer with that one byte
\* replaced; the first candidate whose run exits non-zero is committed and the
\* search moves to the next index, a candidate whose run exits zero is
\* reverted and the next candidate is tried.
C20_CandidatesInOrder ==
  [][/\ (cpc = "index" /\ Idx < Size) =>
          IF IsReplacementByte(U[Idx + 1])
          THEN cpc' = "index" /\ Idx' = Idx + 1 /\ U' = U /\ lastRun' = lastRun
          ELSE cpc' = "replace" /\ Cand' = 0 /\ Idx' = Idx
     /\ cpc = "execute" =>
          /\ ~IsReplacementByte(OriginalByte)
          /\ OriginalByte = Committed[Idx + 1]
          /\ lastRun'.Data = [Committed EXCEPT ![Idx + 1] = <<32, 255>>[Cand + 1]]
          /\ IF lastRun'.Code # 0
             THEN U' = lastRun'.Data /\ cpc' = "index" /\ Idx' = Idx + 1
             ELSE U' = Committed /\ cpc' = "replace" /\ Cand' = Cand + 1 /\ Idx' = Idx
     /\ (cpc = "replace" /\ Cand >= 2) => (cpc' = "index" /\ Idx' = Idx + 1)]_vars

C20_Witness ==
  /\ cpc = "done"
  /\ exitKind = "return"
  /\ Size = 2
  /\ InputData[1] = 32
  /\ U = <<32, 255>>
  /\ InputData[2] = 65
  /\ OutputFile = FileOf(U)

\* -------------------------------------------------- run-individual: claim C17
TimesEach == IF Flags["runs"] >= 1 THEN Flags["runs"] ELSE 1
\* every input TimesEach times, in argv order
ExpectedCallbacks ==
  [k \in 1..(Len(Inputs) * TimesEach) |-> Inputs[((k - 1) \div TimesEach) + 1]]
IsPrefix(s, t) == Len(s) <= Len(t) /\ SubSeq(t, 1, Len(s)) = s

\* C17: when all positional inputs are regular files, the target callback is
\* invoked on the inputs in argv order, each input max(runs, 1) times in a
\* row: what was invoked so far is always a prefix of that sequence and, when
\* the mode ends in exit(0), all of it; the main loop is never entered and no
\* unit is added to the corpus. When some input is no regular file, or there
\* is none, the mode invokes nothing.
C17_EachInputRunInOrder ==
  /\ AllInputsAreFiles =>
       /\ IsPrefix(callbacks, ExpectedCallbacks)
       /\ \A i \in 1..Len(modesRun) : modesRun[i] = "run_individual"
       /\ CorpusUnits = 0
       /\ rpc = "exited" =>
            /\ callbacks = ExpectedCallbacks
            /\ dpc = "done" /\ exitKind = "exit" /\ exitCode = 0
            /\ ~SaveArtifacts
       /\ dpc = "done" => rpc \in {"exited", "died"}
  /\ ~AllInputsAreFiles => callbacks = <<>>

C17_Witness ==
  /\ rpc = "exited"
  /\ Flags["runs"] = 2
  /\ Inputs = << <<"a">>, <<"b">> >>
  /\ callbacks = << <<"a">>, <<"a">>, <<"b">>, <<"b">> >>
  /\ modesRun = <<"run_individual">>
  /\ exitCode = 0

\* ----------------------------------------------- AnalyzeDictionary: claim C18
\* tok is a contiguous substring of unit
Occurs(tok, unit) ==
  \E p \in 1..(Len(unit) + 1) :
    /\ p + Len(tok) - 1 <= Len(unit)
    /\ \A k \in 1..Len(tok) : unit[p + k - 1] = tok[k]
OccursNowhere(i) == \A c \in 1..Len(Corpus) : ~Occurs(Dict[i], Corpus[c])
ExecutedFor(i) == \E e \in 1..Len(executions) : executions[e].Token = i

\* C18: a dictionary token that is not a contiguous substring of any corpus
\* unit has usage count 0 and score 0 during and at the end of the analysis,
\* and the target is never executed on a unit modified for it.
C18_AbsentTokenUntouched ==
  apc \in {"unit", "token", "masking", "report", "returned"} =>
    \A i \in 1..Len(Dict) :
      OccursNowhere(i) => (Usages[i] = 0 /\ Scores[i] = 0 /\ ~ExecutedFor(i))

C18_Witness ==
  /\ apc = "returned"
  /\ Len(Dict) = 2
  /\ Len(Corpus) = 2
  /\ OccursNowhere(1)
  /\ Dict[1] # <<>>
  /\ Usages[1] = 0
  /\ Scores[1] = 0
  /\ Usages[2] = 1
  /\ Scores[2] # 0
  /\ ExecutedFor(2)
  /\ Len(executions) = 3

\* --------------------------------------------------------- MyStol: claim C25
\* the string after "-runs=" once the parser has stored it
StolStr == Suffix(Args[2], Len(ArgRunsEq))
StolStored == fpc = "returned" /\ Len(Args) = 2
StolNegative == Len(StolStr) >= 1 /\ StolStr[1] = "-"
StolBody == IF StolNegative THEN Suffix(StolStr, 1) ELSE StolStr
\* the decimal value of the longest prefix of digits of s, 0 if it is empty
RECURSIVE PrefixValue(_, _)
PrefixValue(s, acc) ==
  IF s = <<>> \/ s[1] \notin {"0", "1", "2", "3", "4", "5", "6", "7", "8", "9"} THEN acc
  ELSE PrefixValue(Tail(s), acc * 10 + (CHOOSE v \in 0..9 : Digits[v + 1] = s[1]))

\* C25: MyStol takes an optional leading '-' and the decimal digits after it,
\* stops at the first non-digit, and returns the value of the digits read,
\* negated when the string starts with '-', whether or not it stopped early.
C25_SignAlwaysApplies ==
  StolStored =>
    Flags["runs"] = IF StolNegative THEN 0 - PrefixValue(StolBody, 0)
                    ELSE PrefixValue(StolBody, 0)

\* what the code does: the sign is applied only when the whole string after
\* the optional '-' is digits; on an early stop the value is not negated
C25_SignDroppedOnEarlyStop ==
  StolStored =>
    Flags["runs"] =
      IF StolNegative /\ \A k \in 1..Len(StolBody) : IsDigit(StolBody[k])
      THEN 0 - PrefixValue(StolBody, 0)
      ELSE PrefixValue(StolBody, 0)

C25_Witness ==
  /\ StolStored
  /\ StolStr = <<"-", "2", "x">>
  /\ Flags["runs"] = 2

\* ------------------------------------------------ CleanseCrashInput: claim C21
\* how far the current pass has got: two slots per byte index
PassPosition == IF cpc = "index" THEN 2 * Idx ELSE 2 * Idx + Cand
InPass == cpc \in {"index", "replace", "execute"}

\* C21: CleanseCrashInput ends, and returns 0 when its arguments are accepted;
\* a pass is begun only while fewer than 5 were made, a further pass is begun
\* only after a pass that committed a replacement and the search returns after
\* the first full pass that committed none; within a pass the position never
\* moves back and every subprocess run moves it forward by at least one of
\* its 2 * N slots, so a pass runs at most 2 * N subprocesses.
C21_CleanseTerminates ==
  /\ [](InPass => (NumAttempts < 5 /\ PassPosition <= 2 * Size))
  /\ [](cpc = "execute" => (Idx < Size /\ Cand < 2))
  /\ [][/\ (InPass /\ InPass') => PassPosition' >= PassPosition
        /\ cpc = "execute" => PassPosition' > PassPosition
        /\ (cpc = "index" /\ cpc' = "attempt") => (Changed /\ NumAttempts' = NumAttempts + 1)
        /\ (cpc = "index" /\ Idx >= Size /\ ~Changed) => cpc' = "return"
        /\ cpc = "return" => (exitKind' = "return" /\ exitCode' = 0)]_vars
  /\ <>(cpc = "done")

C21_Witness ==
  /\ cpc = "done"
  /\ exitKind = "return"
  /\ NumAttempts = 5
  /\ Changed
  /\ Size = 6
  /\ \E k \in 1..Size : U[k] = 65

\* ------------------------------------------------ MinimizeCrashInput: claim C22
\* argv holds a token -name=<v>
GivenInArgv(name) ==
  \E a \in 2..Len(Args) : FlagValue(Args[a], name) # nullptr
UserSetRuns == GivenInArgv(<<"r", "u", "n", "s">>)
UserSetMaxTotalTime ==
  GivenInArgv(<<"m", "a", "x", "_", "t", "o", "t", "a", "l", "_", "t", "i", "m", "e">>)
CommandBuilt == npc \in {"read", "plain", "inner", "return"} \/ (npc = "done" /\ BaseCmd # NoCommand)
InjectedMaxTotalTime == BaseCmd.AddedFlags = << <<"max_total_time", "600">> >>

\* C22, as stated: -max_total_time=600 is added to the subprocess command
\* exactly when argv holds neither -runs nor -max_total_time.
C22_InjectedIffNeitherGiven ==
  CommandBuilt => (InjectedMaxTotalTime <=> (~UserSetRuns /\ ~UserSetMaxTotalTime))

\* C22, amended: -max_total_time=600 is added exactly when, after parsing,
\* runs is zero or negative and max_total_time is zero, and nothing else is
\* ever added; so it is added when neither flag is given, and also when
\* -runs is given as zero or negative, or -max_total_time as 0, and the other
\* flag does not bound the run.
C22_InjectedIffUnbounded ==
  CommandBuilt =>
    /\ InjectedMaxTotalTime <=> (Flags["runs"] <= 0 /\ Flags["max_total_time"] = 0)
    /\ ~InjectedMaxTotalTime => BaseCmd.AddedFlags = <<>>
    /\ (~UserSetRuns /\ ~UserSetMaxTotalTime) => InjectedMaxTotalTime
    /\ BaseCmd.Ctor = Args

C22_Witness ==
  /\ npc = "done"
  /\ exitKind = "return"
  /\ UserSetRuns
  /\ Flags["runs"] = 0
  /\ ~UserSetMaxTotalTime
  /\ InjectedMaxTotalTime

\* ----------------------------------------------- AnalyzeDictionary: claim C23
\* unit with the leftmost occurrence of tok masked, then the leftmost one
\* after it, and so on: scanned from position p
RECURSIVE MaskedFrom(_, _, _)
MaskedFrom(unit, tok, p) ==
  IF p > Len(unit) THEN <<>>
  ELSE IF p + Len(tok) - 1 <= Len(unit) /\ SubSeq(unit, p, p + Len(tok) - 1) = tok
       THEN [k \in 1..Len(tok) |-> 255 - tok[k]] \o MaskedFrom(unit, tok, p + Len(tok))
       ELSE <<unit[p]>> \o MaskedFrom(unit, tok, p + 1)
UnitsWith(i) == {c \in 1..Len(Corpus) : Occurs(Dict[i], Corpus[c])}
\* the units that have bytes and contain the token
NonEmptyUnitsWith(i) == {c \in UnitsWith(i) : Corpus[c] # <<>>}
\* the features collected when unit c was run, unmodified (i = 0) or masked for token i
FeaturesOf(c, i) ==
  LET e == CHOOSE x \in 1..Len(executions) :
             executions[x].Unit = c /\ executions[x].Token = i
  IN executions[e].Features
RunsFor(c, i) ==
  {x \in 1..Len(executions) : executions[x].Unit = c /\ executions[x].Token = i}
ReportedUseless(i) == \E k \in 1..Len(reported) : reported[k] = i
\* usage, masked runs, score and report of token i, W being the units counted
\* as containing it
AnalysedOver(i, W) ==
  LET changed == {c \in W : RunsFor(c, i) # {} /\ FeaturesOf(c, i) # FeaturesOf(c, 0)} IN
  /\ Usages[i] = Cardinality(W)
  /\ \A c \in 1..Len(Corpus) : Cardinality(RunsFor(c, i)) = IF c \in W THEN 1 ELSE 0
  /\ \A x \in 1..Len(executions) :
       executions[x].Token = i =>
         executions[x].Data = MaskedFrom(Corpus[executions[x].Unit], Dict[i], 1)
  /\ Scores[i] = 2 * Cardinality(changed) - Cardinality(W \ changed)
  /\ ReportedUseless(i) <=> Scores[i] <= 0

C27_AnalyzeTerminates ==
  <>(apc = "returned" /\ exitCode = 0)

\* what the code does: it returns when no dictionary unit is empty, or every
\* corpus unit is; on an empty dictionary unit the masking scan of the first
\* non-empty testcase stays where it is
C27_TerminatesUnlessEmptyToken ==
  /\ <>((apc = "returned" /\ exitCode = 0) \/ apc = "masking")
  /\ [](apc = "masking" => (Dict[dIdx + 1] = <<>> /\ Corpus[cIdx + 1] # <<>>))
  /\ [][apc = "masking" => apc' = "masking"]_vars

C27_Witness ==
  /\ apc = "masking"
  /\ Dict[dIdx + 1] = <<>>
  /\ Corpus[cIdx + 1] = <<65>>
  /\ Usages[dIdx + 1] = 1

\* -------------------------------------------------------- ParseFlags: claim C24
\* tok is -name=<v> for a registered flag name
NamesRegisteredFlag(tok) ==
  \E F \in 1..kNumFlags :
    IsPrefixOf(<<"-">> \o FlagDescriptions[F].Name \o <<"=">>, tok)
\* a token that starts with '--', or starts with '-' and names no registered flag
SoftError(tok) ==
  /\ Len(tok) >= 1
  /\ tok[1] = "-"
  /\ (Len(tok) >= 2 /\ tok[2] = "-") \/ ~NamesRegisteredFlag(tok)
WithoutSoftErrors(args) == SelectSeq(args, LAMBDA tok : ~SoftError(tok))

\* C24: the step that meets a token starting with '--', or a single-dash
\* token that names no registered flag, changes no flag field and not Inputs,
\* and goes on to the next token; when the parser has returned, the flags and
\* Inputs are those it leaves on the same argv with these tokens taken out.
C24_SoftErrorsChangeNothing ==
  /\ [][(fpc = "loop" /\ argA < Len(Args) /\ SoftError(Args[argA + 1])) =>
          /\ Flags' = Flags
          /\ Inputs' = Inputs
          /\ fpc' = "loop"
          /\ argA' = argA + 1]_vars
  /\ [](fpc = "returned" =>
          LET ps == ParseFlags(WithoutSoftErrors(Args), CustomMutator, FALSE)
          IN Flags = ps.Flags /\ Inputs = ps.Inputs)

C24_Witness ==
  /\ fpc = "returned"
  /\ Len(Args) = 4
  /\ Args[2] = <<"-", "-", "h", "e", "l", "p", "=", "1">>
  /\ Args[3] = <<"-", "z", "z", "=", "1">>
  /\ Args[4] = <<"-", "r", "u", "n", "s", "=", "-", "7">>
  /\ Flags["help"] = 0
  /\ Flags["runs"] = -7
  /\ Inputs = <<>>
  /\ PrintedWarning

\* ------------------------------------------------ MinimizeCrashInput: claim C26
OriginalSize == Len(MinFiles.In[1])
InLoop == npc \in {"read", "plain", "inner", "return"}
LoopEnds == <>(npc = "done")
\* the current input gets strictly shorter on every continued iteration
SizeDecreases ==
  [][(npc = "read" /\ minLog.Iterations >= 1) =>
       Len(MinU') < Len(MinU)]_vars

\* C26, as stated: the loop ends, the current input is strictly shorter on
\* every continued iteration, and the loop makes at most as many iterations
\* as the original input has bytes.
C26_AtMostSizeIterations ==
  /\ LoopEnds
  /\ SizeDecreases
  /\ [](InLoop => minLog.Iterations <= OriginalSize)

\* C26, amended: the same, with at most max(1, N) iterations for an original
\* input of N bytes: an empty input takes one iteration.
C26_AtMostSizeOrOneIterations ==
  /\ LoopEnds
  /\ SizeDecreases
  /\ [](InLoop => minLog.Iterations <= IF OriginalSize = 0 THEN 1 ELSE OriginalSize)

C26_Witness ==
  /\ npc = "done"
  /\ exitKind = "return"
  /\ OriginalSize = 3
  /\ minLog.Iterations = 3
  /\ Len(MinU) = 1

\* ----------------------------------------------------- FuzzerDriver: claim C28
\* a <= b for unsigned int values, a wrapped value 2^32 - m being written -m
UnsignedLeq(a, b) ==
  \/ a >= 0 /\ b >= 0 /\ a <= b
  \/ a >= 0 /\ b < 0
  \/ a < 0 /\ b < 0 /\ a <= b
StartsWorkerPool == modesRun' = Append(modesRun, "workers")

\* C28: the step that looks at jobs and workers, when jobs > 0 and workers is
\* 0, sets workers to min(cores / 2, jobs) for the number of cores the machine
\* reports, a value that is at most jobs; it starts the worker pool exactly
\* when that value is > 0, and otherwise (fewer than 2 cores) starts none and
\* goes on to the single-process modes.
C28_DefaultWorkers ==
  [][(dpc = "jobs" /\ Flags["jobs"] # 0 /\ Flags["workers"] = 0) =>
       /\ \E cores \in CpuCores :
            Flags'["workers"] = IF UnsignedLeq(cores \div 2, Flags["jobs"])
                                THEN cores \div 2 ELSE Flags["jobs"]
       /\ UnsignedLeq(Flags'["workers"], Flags'["jobs"])
       /\ Flags'["jobs"] = Flags["jobs"]
       /\ StartsWorkerPool <=> Flags'["workers"] # 0
       /\ StartsWorkerPool => dpc' = "done"
       /\ ~StartsWorkerPool => (dpc' = "corpus_dir" /\ modesRun' = modesRun)]_vars

C28_Witness ==
  /\ dpc = "done"
  /\ Flags["jobs"] = 2
  /\ Flags["workers"] = 0
  /\ \E a \in 2..Len(Args) : Args[a] = <<"-", "j", "o", "b", "s", "=", "2">>
  /\ \A a \in 2..Len(Args) : FlagValue(Args[a], <<"w", "o", "r", "k", "e", "r", "s">>) = nullptr
  /\ modesRun # <<>>
  /\ \A i \in 1..Len(modesRun) : modesRun[i] # "workers"
====
